---- MODULE Spec2Model ----
(***************************************************************************)
(* Model of the MilkPoPchan export bot.                                    *)
(*                                                                         *)
(*   Part I   the budgeted export driver, ExportHtmlCog.export             *)
(*            (src/cogs/export_html.py:434-510): one process per command   *)
(*            invocation, one action per resumption of the coroutine,      *)
(*            from the await that returned to the next await.              *)
(*   Part II  the rendering of one message body, render_discord_markdown   *)
(*            (src/cogs/export_html.py:230-330), as operators on strings   *)
(*            and as a state machine with one action per statement.        *)
(*   Part III the attachment block of one message, attachments_to_html     *)
(*            (src/cogs/export_html.py:356-384).                           *)
(*   Part IV  the session text channels of SetupVCSessionCategoriesCog     *)
(*            (src/cogs/setupvc_session_categories.py:121-262): one        *)
(*            process per button press, one action per resumption of the   *)
(*            handler, from the await that returned to the next await.     *)
(*   Part V   the shared and individual text channels of SetupChannelsCog  *)
(*            (src/cogs/setup_channels.py:219-443), in the same way.       *)
(***************************************************************************)
EXTENDS Integers, Sequences, FiniteSets, TLC

Min(a, b) == IF a <= b THEN a ELSE b
Max(a, b) == IF a >= b THEN a ELSE b

(***************************************************************************)
(* Part I.  Export driver                                                  *)
(***************************************************************************)

\* export_html.py:17-21
DEFAULT_LIMIT == 200
MAX_LIMIT == 5000
SAFE_MAX_BYTES == 8 * 1024 * 1024 - 200000

\* the literal 50 of export_html.py:503 and :510
FLOOR == 50

\* make_html_page with empty names and no messages: characters and UTF-8
\* bytes of the shell (the template holds non-ASCII text, so they differ).
ShellChars == 4296
ShellBytes == 4366

\* The invocations that can be in flight.
Inv == {"a", "b"}

\* Limits a caller can pass: below range, the boundaries of the clamp, the
\* floor and its neighbours, the default, the values where the halving
\* chain changes length, and above range.
Limits == {-7, 0, 1, 10, 49, 50, 51, 100, 101, DEFAULT_LIMIT, 799, 3263, 3264,
           MAX_LIMIT - 1, MAX_LIMIT, MAX_LIMIT + 1, 12000}

\* A channel as the history provider sees it: how many messages it holds and
\* the size of one rendered message fragment, in characters and in UTF-8
\* bytes (bytes >= characters; non-ASCII text makes them differ).
Channels ==
  { [msgs |-> 0,    fragChars |-> 400,    fragBytes |-> 400],
    [msgs |-> 6000, fragChars |-> 300,    fragBytes |-> 300],
    [msgs |-> 6000, fragChars |-> 1500,   fragBytes |-> 2000],
    [msgs |-> 6000, fragChars |-> 20000,  fragBytes |-> 20000],
    [msgs |-> 6000, fragChars |-> 80000,  fragBytes |-> 200000],
    [msgs |-> 45,   fragChars |-> 300000, fragBytes |-> 900000],
    [msgs |-> 70,   fragChars |-> 150000, fragBytes |-> 165000] }

NoChannel == [msgs |-> 0, fragChars |-> 0, fragBytes |-> 0]
NoFile == [count |-> 0, bytes |-> 0]

\* What the entry checks of export (lines 437-453) can find.
PreChecks == {"ok", "not_text_channel", "no_me", "missing_perms"}
\* How an awaited Discord call can end.
Results == {"ok", "Forbidden", "HTTPException"}
\* guild.chunk under wait_for: done, timed out, or failed.
ChunkResults == {"ok", "TimeoutError", "HTTPException"}

VARIABLES
  pc,         \* where each invocation is suspended
  arg,        \* the limit the caller passed
  channel,    \* the channel the command was issued in
  current,    \* local `current` (and `limit` before the loop)
  requested,  \* the counts passed to channel.history, in order
  dataLen,    \* len(data) of the last rendered document, 0 before
  pending,    \* the report about to be sent with ctx.reply / ctx.send
  file,       \* the file delivered with ctx.send, NoFile if none
  outcome,    \* how the invocation ended
  raised,     \* the exception that left export, "none" if none
  msgs,       \* the list `msgs`, as runs <<first, last>> of message ids
  doc,        \* the messages in the file delivered, << >> if none
  \* render_discord_markdown
  rpc,        \* the statement the renderer is at
  raw,        \* raw_text as passed in
  guild,      \* the guild directory passed in
  text,       \* raw_text after replace_discord_mentions_to_names
  parts,      \* raw_text.split of the fence
  out,        \* the list `out`, one fragment per part handled so far
  body,       \* the returned string
  \* attachments_to_html
  apc,        \* the statement attachments_to_html is at
  atts,       \* message.attachments
  imgs,       \* the list `imgs`
  files,      \* the list `files`
  block,      \* the returned attach_block, as the elements it holds
  \* SetupVCSessionCategoriesCog
  vc_pc,      \* per press: the await the handler is suspended at
  vc_local,   \* per press: the locals of the handler
  vc_discord, \* the text channels Discord has made, by id
  vc_guild,   \* the ids guild.text_channels / guild.get_channel know
  vc_db,      \* self.db
  \* SetupChannelsCog
  sc_pc,      \* per press: the await the handler is suspended at
  sc_local,   \* per press: the locals of the handler
  sc_discord, \* the text channels Discord has made, by id
  sc_guild,   \* the ids guild.get_channel knows
  sc_db       \* self.db

dvars == <<pc, arg, channel, current, requested, dataLen, pending, file,
           outcome, raised, msgs, doc>>
rvars == <<rpc, raw, guild, text, parts, out, body>>
avars == <<apc, atts, imgs, files, block>>
vcvars == <<vc_pc, vc_local, vc_discord, vc_guild, vc_db>>
scvars == <<sc_pc, sc_local, sc_discord, sc_guild, sc_db>>
cogvars == <<vcvars, scvars>>
vars == <<dvars, rvars, avars, cogvars>>

\* Variant: the upper clamp alone.
ClampLimitUpperOnly(limit) == Min(limit, MAX_LIMIT)

\* limit = max(1, min(limit, MAX_LIMIT))                         (line 456)
ClampLimit(limit) == Max(1, Min(limit, MAX_LIMIT))

\* channel.history(limit=count, oldest_first=True): the oldest `count`
\* messages, fewer when the channel holds fewer.              (lines 471-474)
FetchedCount(ch, count) == Min(count, ch.msgs)

\* What channel.history(limit=count, oldest_first=True) yields: the oldest
\* messages of the channel in order of age.  Messages are numbered by age
\* from 1, and a list of messages is written as the runs <<first, last>> of
\* consecutive numbers it is made of.                          (line 473)
History(ch, count) ==
  IF FetchedCount(ch, count) = 0 THEN << >>
  ELSE << <<1, FetchedCount(ch, count)>> >>

\* Variant: `msgs` created once, before the loop.
CollectedKept(old, fetched) == old \o fetched

\* msgs = [] and one append per message yielded.          (lines 471-474)
Collected(old, fetched) == fetched

\* len(msgs)
RECURSIVE NumMsgs(_)
NumMsgs(runs) ==
  IF runs = << >> THEN 0
  ELSE Head(runs)[2] - Head(runs)[1] + 1 + NumMsgs(Tail(runs))

\* "\n".join(msg_to_html(m) for m in msgs) inside make_html_page:
\* the characters of the page.                                (lines 482-490)
PageChars(ch, n) ==
  ShellChars + n * ch.fragChars + (IF n > 0 THEN n - 1 ELSE 0)

\* len(page.encode("utf-8")).                                      (line 491)
EncodedLen(ch, n) ==
  ShellBytes + n * ch.fragBytes + (IF n > 0 THEN n - 1 ELSE 0)

\* Variant: the comparison against Discord's hard 8 MB limit.
FitsHardLimit(bytes) == bytes <= 8 * 1024 * 1024

\* len(data) <= SAFE_MAX_BYTES                                     (line 493)
Fits(bytes) == bytes <= SAFE_MAX_BYTES

\* Variant: strict comparison at the floor.
AtFloorStrict(count) == count < FLOOR

\* current <= 50                                                   (line 503)
AtFloor(count) == count <= FLOOR

\* Variant: halving without the floor.
HalveNoFloor(count) == count \div 2

\* Variant: stepping down by one message instead of halving.
HalveByOne(count) == Max(FLOOR, count - 1)

\* max(50, current // 2)                                           (line 510)
Halve(count) == Max(FLOOR, count \div 2)

\* Variant: `current` kept on the cog (self.current), shared by every
\* invocation.
ShrunkShared(cur, i) == [j \in DOMAIN cur |-> Max(FLOOR, cur[i] \div 2)]

\* current = max(50, current // 2): only this invocation's local changes.
Shrunk(cur, i) == [cur EXCEPT ![i] = Halve(cur[i])]

DInit ==
  /\ pc = [i \in Inv |-> "idle"]
  /\ arg = [i \in Inv |-> 0]
  /\ channel = [i \in Inv |-> NoChannel]
  /\ current = [i \in Inv |-> 0]
  /\ requested = [i \in Inv |-> << >>]
  /\ dataLen = [i \in Inv |-> 0]
  /\ pending = [i \in Inv |-> "none"]
  /\ file = [i \in Inv |-> NoFile]
  /\ outcome = [i \in Inv |-> "none"]
  /\ raised = [i \in Inv |-> "none"]
  /\ msgs = [i \in Inv |-> << >>]
  /\ doc = [i \in Inv |-> << >>]

\* export is called: the entry checks, then the clamp, up to the first await
\* (a ctx.reply of an entry failure, or guild.chunk).          (lines 437-461)
Invoke(i, limit, ch, pre) ==
  /\ pc[i] = "idle"
  /\ arg' = [arg EXCEPT ![i] = limit]
  /\ channel' = [channel EXCEPT ![i] = ch]
  /\ IF pre # "ok"
       THEN /\ pending' = [pending EXCEPT ![i] = pre]
            /\ pc' = [pc EXCEPT ![i] = "report"]
            /\ UNCHANGED current
       ELSE /\ current' = [current EXCEPT ![i] = ClampLimit(limit)]
            /\ pc' = [pc EXCEPT ![i] = "chunk"]
            /\ UNCHANGED pending
  /\ UNCHANGED <<requested, dataLen, file, outcome, raised, msgs, doc,
               rvars, avars, cogvars>>

\* guild.chunk returned or failed (every Exception is swallowed); current =
\* limit, and the first channel.history is issued.             (lines 459-473)
Chunk(i, res) ==
  /\ pc[i] = "chunk"
  /\ res \in ChunkResults
  /\ requested' = [requested EXCEPT ![i] = <<current[i]>>]
  /\ pc' = [pc EXCEPT ![i] = "fetch"]
  /\ UNCHANGED <<arg, channel, current, dataLen, pending, file, outcome, raised,
               msgs, doc, rvars, avars, cogvars>>

\* Variant: the `return` after the report is missing, and the loop body goes
\* on to render and send what was collected.
FetchFailFallsThrough(i, res) ==
  /\ pc[i] = "fetch"
  /\ res \in {"Forbidden", "HTTPException"}
  /\ pending' = [pending EXCEPT ![i] =
        IF res = "Forbidden" THEN "history_forbidden" ELSE "history_http"]
  /\ pc' = [pc EXCEPT ![i] = "send"]
  /\ UNCHANGED <<arg, channel, current, requested, dataLen, file, outcome, raised,
               msgs, doc, rvars, avars, cogvars>>

\* channel.history failed.                                     (lines 475-480)
FetchFail(i, res) ==
  /\ pc[i] = "fetch"
  /\ res \in {"Forbidden", "HTTPException"}
  /\ pending' = [pending EXCEPT ![i] =
        IF res = "Forbidden" THEN "history_forbidden" ELSE "history_http"]
  /\ pc' = [pc EXCEPT ![i] = "report"]
  /\ UNCHANGED <<arg, channel, current, requested, dataLen, file, outcome, raised,
               msgs, doc, rvars, avars, cogvars>>

\* channel.history returned: render, encode, measure, then either go on to
\* send the file, to report that the page is too large, or shrink and issue
\* the next channel.history.                                   (lines 482-510)
FetchOk(i) ==
  /\ pc[i] = "fetch"
  /\ msgs' = [msgs EXCEPT ![i] =
                Collected(msgs[i], History(channel[i], current[i]))]
  /\ LET bytes == EncodedLen(channel[i], NumMsgs(msgs'[i]))
     IN  /\ dataLen' = [dataLen EXCEPT ![i] = bytes]
         /\ IF Fits(bytes)
              THEN /\ pc' = [pc EXCEPT ![i] = "send"]
                   /\ UNCHANGED <<current, requested, pending>>
              ELSE IF AtFloor(current[i])
                THEN /\ pending' = [pending EXCEPT ![i] = "too_large"]
                     /\ pc' = [pc EXCEPT ![i] = "report"]
                     /\ UNCHANGED <<current, requested>>
                ELSE /\ current' = Shrunk(current, i)
                     /\ requested' = [requested EXCEPT ![i] =
                                        Append(@, current'[i])]
                     /\ UNCHANGED <<pc, pending>>
  /\ UNCHANGED <<arg, channel, file, outcome, raised, doc, rvars, avars, cogvars>>

\* ctx.send(..., file=file) returned or failed.                (lines 494-501)
Send(i, res) ==
  /\ pc[i] = "send"
  /\ res \in Results
  /\ IF res = "ok"
       THEN /\ file' = [file EXCEPT ![i] =
                          [count |-> current[i], bytes |-> dataLen[i]]]
            /\ doc' = [doc EXCEPT ![i] = msgs[i]]
            /\ outcome' = [outcome EXCEPT ![i] = "sent"]
            /\ pc' = [pc EXCEPT ![i] = "done"]
            /\ UNCHANGED pending
       ELSE /\ pending' = [pending EXCEPT ![i] =
              IF res = "Forbidden" THEN "send_forbidden" ELSE "send_http"]
            /\ pc' = [pc EXCEPT ![i] = "report"]
            /\ UNCHANGED <<file, outcome, doc>>
  /\ UNCHANGED <<arg, channel, current, requested, dataLen, raised, msgs,
               rvars, avars, cogvars>>

\* The ctx.reply / ctx.send of a failure report returned or failed; none of
\* them is inside a try.        (lines 438, 446, 452, 476, 479, 498, 500, 504)
Report(i, res) ==
  /\ pc[i] = "report"
  /\ res \in Results
  /\ IF res = "ok"
       THEN /\ outcome' = [outcome EXCEPT ![i] = pending[i]]
            /\ UNCHANGED raised
       ELSE /\ outcome' = [outcome EXCEPT ![i] = "raised"]
            /\ raised' = [raised EXCEPT ![i] = res]
  /\ pc' = [pc EXCEPT ![i] = "done"]
  /\ UNCHANGED <<arg, channel, current, requested, dataLen, pending, file,
               msgs, doc, rvars, avars, cogvars>>

(***************************************************************************)
(* Part II.  Rendering of one message body, render_discord_markdown        *)
(* (src/cogs/export_html.py:230-330).  A string is a sequence of           *)
(* characters, each a one-character string (a non-ASCII character is       *)
(* written by its code point, "U+30ED").                                   *)
(***************************************************************************)

\* three backquotes (U+0060)
S_Fence == <<"U+0060", "U+0060", "U+0060">>
S_Newline == <<"\n">>
S_Everyone == <<"@", "e", "v", "e", "r", "y", "o", "n", "e">>
S_Here == <<"@", "h", "e", "r", "e">>
S_PingOpen == <<"<", "s", "p", "a", "n", " ", "c", "l", "a", "s", "s", "=", "\"", "m", "e", "n", "t", "i", "o", "n", "-", "p", "i", "n", "g", "\"", ">">>
S_MentionOpen == <<"<", "s", "p", "a", "n", " ", "c", "l", "a", "s", "s", "=", "\"", "m", "e", "n", "t", "i", "o", "n", "\"", ">">>
S_SpanClose == <<"<", "/", "s", "p", "a", "n", ">">>
S_AHref == <<"<", "a", " ", "h", "r", "e", "f", "=", "\"">>
S_AMid == <<"\"", " ", "t", "a", "r", "g", "e", "t", "=", "\"", "_", "b", "l", "a", "n", "k", "\"", " ", "r", "e", "l", "=", "\"", "n", "o", "o", "p", "e", "n", "e", "r", " ", "n", "o", "r", "e", "f", "e", "r", "r", "e", "r", "\"", ">">>
S_AClose == <<"<", "/", "a", ">">>
S_StrongOpen == <<"<", "s", "t", "r", "o", "n", "g", ">">>
S_StrongClose == <<"<", "/", "s", "t", "r", "o", "n", "g", ">">>
S_DelOpen == <<"<", "d", "e", "l", ">">>
S_DelClose == <<"<", "/", "d", "e", "l", ">">>
S_EmOpen == <<"<", "e", "m", ">">>
S_EmClose == <<"<", "/", "e", "m", ">">>
S_CodeOpen == <<"<", "p", "r", "e", " ", "c", "l", "a", "s", "s", "=", "\"", "c", "o", "d", "e", "b", "l", "o", "c", "k", "\"", ">", "<", "c", "o", "d", "e", ">">>
S_CodeClose == <<"<", "/", "c", "o", "d", "e", ">", "<", "/", "p", "r", "e", ">">>
S_LangOpen == <<"<", "d", "i", "v", " ", "c", "l", "a", "s", "s", "=", "\"", "l", "a", "n", "g", "\"", ">">>
S_DivClose == <<"<", "/", "d", "i", "v", ">">>
S_H1Open == <<"<", "d", "i", "v", " ", "c", "l", "a", "s", "s", "=", "\"", "h", "1", "\"", ">">>
S_H2Open == <<"<", "d", "i", "v", " ", "c", "l", "a", "s", "s", "=", "\"", "h", "2", "\"", ">">>
S_H3Open == <<"<", "d", "i", "v", " ", "c", "l", "a", "s", "s", "=", "\"", "h", "3", "\"", ">">>
S_Br == <<"<", "b", "r", ">">>
S_Amp == <<"&", "a", "m", "p", ";">>
S_Lt == <<"&", "l", "t", ";">>
S_Gt == <<"&", "g", "t", ";">>
S_Quot == <<"&", "q", "u", "o", "t", ";">>
S_Apos == <<"&", "#", "x", "2", "7", ";">>
S_Http == <<"h", "t", "t", "p">>
S_Scheme == <<":", "/", "/">>
\* the placeholders of lines 239-247, katakana for "role" and "channel"
S_RolePlaceholder == <<"@", "U+30ED", "U+30FC", "U+30EB">>
S_ChannelPlaceholder == <<"#", "U+30C1", "U+30E3", "U+30F3", "U+30CD", "U+30EB">>

Digits == {"0", "1", "2", "3", "4", "5", "6", "7", "8", "9"}
Letters ==
  {"a", "b", "c", "d", "e", "f", "g", "h", "i", "j", "k", "l", "m", "n", "o",
   "p", "q", "r", "s", "t", "u", "v", "w", "x", "y", "z",
   "A", "B", "C", "D", "E", "F", "G", "H", "I", "J", "K", "L", "M", "N", "O",
   "P", "Q", "R", "S", "T", "U", "V", "W", "X", "Y", "Z"}
Kana == {"U+30ED", "U+30FC", "U+30EB", "U+30C1", "U+30E3", "U+30F3", "U+30CD"}
\* \w and \s of Python's re on str
WordChars == Letters \cup Digits \cup Kana \cup {"_"}
Whitespace == {" ", "\n", "\t", "\r"}
\* [A-Za-z0-9_+\-#.]                                              (line 306)
LangChars == Letters \cup Digits \cup {"_", "+", "-", "#", "."}
\* the complement of [^\s<>()\]\}]                                 (line 24)
UrlStop == Whitespace \cup {"<", ">", "(", ")", "]", "}"}

\* s[i:e] of Python, with 1-based i and exclusive e
Slice(s, i, e) == SubSeq(s, i, e - 1)

\* s.startswith(lit, i)
MatchAt(s, i, lit) ==
  /\ i + Len(lit) - 1 <= Len(s)
  /\ \A k \in 1..Len(lit) : s[i + k - 1] = lit[k]

\* the least element of a non-empty set of positions
Least(S) == CHOOSE x \in S : \A y \in S : x <= y

\* the first position at or after i of a character of cs, 0 if none
NextIn(s, i, cs) ==
  LET S == {j \in i..Len(s) : s[j] \in cs}
  IN  IF S = {} THEN 0 ELSE Least(S)

\* the end of the longest run of characters of cs starting at i
RunEnd(s, i, cs) ==
  LET S == {j \in i..Len(s) : s[j] \notin cs}
  IN  IF S = {} THEN Max(i, Len(s) + 1) ELSE Least(S)

\* the end of the longest run of characters outside cs starting at i
RunEndNot(s, i, cs) ==
  LET S == {j \in i..Len(s) : s[j] \in cs}
  IN  IF S = {} THEN Max(i, Len(s) + 1) ELSE Least(S)

\* s.find(lit, i): the least j >= i where lit occurs, 0 if none
FindLit(s, i, lit) ==
  LET S == {j \in i..(Len(s) - Len(lit) + 1) : MatchAt(s, j, lit)}
  IN  IF S = {} THEN 0 ELSE Least(S)

\* "".join(parts)
RECURSIVE Concat(_)
Concat(ss) == IF ss = << >> THEN << >> ELSE Head(ss) \o Concat(Tail(ss))

\* sep.join(parts)
RECURSIVE JoinWith(_, _)
JoinWith(ss, sep) ==
  IF ss = << >> THEN << >>
  ELSE IF Len(ss) = 1 THEN ss[1]
  ELSE ss[1] \o sep \o JoinWith(Tail(ss), sep)

\* s.split(lit): the pieces between the non-overlapping occurrences of lit,
\* scanned from the left; b is where the current piece begins.
RECURSIVE SplitOn(_, _, _)
SplitOn(s, lit, b) ==
  LET j == FindLit(s, b, lit)
  IN  IF j = 0 THEN <<Slice(s, b, Len(s) + 1)>>
      ELSE <<Slice(s, b, j)>> \o SplitOn(s, lit, j + Len(lit))

\* Variant: s.split(lit, 1), only the first occurrence splits.
SplitOnce(s, lit) ==
  IF FindLit(s, 1, lit) = 0 THEN <<s>>
  ELSE <<Slice(s, 1, FindLit(s, 1, lit)),
         Slice(s, FindLit(s, 1, lit) + Len(lit), Len(s) + 1)>>

Split(s, lit) == SplitOn(s, lit, 1)

\* s.splitlines(): a line break ends a line, so a trailing one adds no
\* empty last line, and "" has no line.
SplitLines(s) ==
  LET ps == Split(s, S_Newline)
  IN  IF ps[Len(ps)] = << >> THEN SubSeq(ps, 1, Len(ps) - 1) ELSE ps

\* s.strip()
Strip(s) ==
  LET S == {j \in 1..Len(s) : s[j] \notin Whitespace}
  IN  IF S = {} THEN << >>
      ELSE SubSeq(s, Least(S), CHOOSE x \in S : \A y \in S : x >= y)

\* html.escape(s), quote=True: the entity that replaces a character
EscapedChars == {"&", "<", ">", "\"", "'"}
EscapeChar(c) ==
  CASE c = "&" -> S_Amp
    [] c = "<" -> S_Lt
    [] c = ">" -> S_Gt
    [] c = "\"" -> S_Quot
    [] c = "'" -> S_Apos

\* int(m.group(1)) of the digits s[i:e]
DigitVal(c) ==
  CASE c = "0" -> 0 [] c = "1" -> 1 [] c = "2" -> 2 [] c = "3" -> 3
    [] c = "4" -> 4 [] c = "5" -> 5 [] c = "6" -> 6 [] c = "7" -> 7
    [] c = "8" -> 8 [] c = "9" -> 9

RECURSIVE IntOf(_, _, _)
IntOf(s, i, e) ==
  IF e <= i THEN 0 ELSE IntOf(s, i, e - 1) * 10 + DigitVal(s[e - 1])

\* A guild directory: the display names of its members, roles and channels
\* by id.  NoGuild is guild = None.
NoGuild == [present |-> FALSE, members |-> << >>, roles |-> << >>, channels |-> << >>]

\* Variant: an unknown user shown by a placeholder, as roles are.
DisplayUserPlaceholder(g, id) ==
  IF g.present /\ id \in DOMAIN g.members
    THEN <<"@">> \o g.members[id] ELSE <<"@", "?">>

\* _display_user                                             (lines 230-235)
DisplayUser(g, id) ==
  IF ~g.present THEN << >>
  ELSE IF id \in DOMAIN g.members THEN <<"@">> \o g.members[id] ELSE << >>

\* Variant: an unknown role vanishes, as users do.
DisplayRoleVanishes(g, id) ==
  IF g.present /\ id \in DOMAIN g.roles THEN <<"@">> \o g.roles[id] ELSE << >>

\* _display_role                                             (lines 237-241)
DisplayRole(g, id) ==
  IF ~g.present THEN S_RolePlaceholder
  ELSE IF id \in DOMAIN g.roles THEN <<"@">> \o g.roles[id]
  ELSE S_RolePlaceholder

\* _display_channel                                          (lines 243-247)
DisplayChannel(g, id) ==
  IF ~g.present THEN S_ChannelPlaceholder
  ELSE IF id \in DOMAIN g.channels THEN <<"#">> \o g.channels[id]
  ELSE S_ChannelPlaceholder

(***************************************************************************)
(* The regular expressions.  For each, XStart(s, i) is where group 1       *)
(* begins and XEnd(s, i) the (exclusive) end of the match that begins at   *)
(* i, 0 when the expression does not match at i.                           *)
(***************************************************************************)

\* USER_MENTION_RE  <@!?(\d+)>                                     (line 27)
UserStart(s, i) == IF MatchAt(s, i + 2, <<"!">>) THEN i + 3 ELSE i + 2
UserEnd(s, i) ==
  IF ~MatchAt(s, i, <<"<", "@">>) THEN 0
  ELSE LET k == UserStart(s, i)
           d == RunEnd(s, k, Digits)
       IN  IF d > k /\ MatchAt(s, d, <<">">>) THEN d + 1 ELSE 0

\* ROLE_MENTION_RE  <@&(\d+)>                                      (line 28)
RoleEnd(s, i) ==
  IF ~MatchAt(s, i, <<"<", "@", "&">>) THEN 0
  ELSE LET d == RunEnd(s, i + 3, Digits)
       IN  IF d > i + 3 /\ MatchAt(s, d, <<">">>) THEN d + 1 ELSE 0

\* CHANNEL_MENTION_RE  <#(\d+)>                                    (line 29)
ChannelEnd(s, i) ==
  IF ~MatchAt(s, i, <<"<", "#">>) THEN 0
  ELSE LET d == RunEnd(s, i + 2, Digits)
       IN  IF d > i + 2 /\ MatchAt(s, d, <<">">>) THEN d + 1 ELSE 0

\* URL_RE  (https?://[^\s<>()\]\}]+)                               (line 24)
UrlEnd(s, i) ==
  IF ~MatchAt(s, i, S_Http) THEN 0
  ELSE LET k == IF MatchAt(s, i + 4, <<"s">>) THEN i + 5 ELSE i + 4
           e == RunEndNot(s, k + 3, UrlStop)
       IN  IF MatchAt(s, k, S_Scheme) /\ e > k + 3 THEN e ELSE 0

\* BOLD_RE \*\*(.+?)\*\* and STRIKE_RE ~~(.+?)~~, d the doubled delimiter:
\* the lazy group ends at the first d that leaves it non-empty.
                                                            \* (lines 32-33)
PairEnd(s, i, d) ==
  IF ~MatchAt(s, i, d) THEN 0
  ELSE LET j == FindLit(s, i + 3, d)
       IN  IF j = 0 THEN 0 ELSE j + 2

\* A single delimiter c at j, with no c before or after it.
LoneAt(s, j, c) ==
  /\ j >= 1 /\ j <= Len(s) /\ s[j] = c
  /\ j = 1 \/ s[j - 1] # c
  /\ j = Len(s) \/ s[j + 1] # c

FindLone(s, j, c) ==
  LET S == {k \in j..Len(s) : LoneAt(s, k, c)}
  IN  IF S = {} THEN 0 ELSE Least(S)

\* ITALIC_ASTER_RE / ITALIC_UNDER_RE
\* (?<!c)c(?!c)(.+?)(?<!c)c(?!c)                             (lines 35-36)
ItalicEnd(s, i, c) ==
  IF ~LoneAt(s, i, c) THEN 0
  ELSE LET j == FindLone(s, i + 2, c)
       IN  IF j = 0 THEN 0 ELSE j + 1

\* (?<!<)(?<![\w/]) before a match at i                      (lines 278-279)
MentionMayStart(s, i) ==
  i = 1 \/ (s[i - 1] # "<" /\ s[i - 1] \notin WordChars /\ s[i - 1] # "/")

\* (?<!<)(?<![\w/])(@[^\s<]+)                                     (line 278)
AtEnd(s, i) ==
  IF ~(MatchAt(s, i, <<"@">>) /\ MentionMayStart(s, i)) THEN 0
  ELSE LET e == RunEndNot(s, i + 1, Whitespace \cup {"<"})
       IN  IF e > i + 1 THEN e ELSE 0

\* (?<!<)(?<![\w/])(#\S+)                                         (line 279)
HashEnd(s, i) ==
  IF ~(MatchAt(s, i, <<"#">>) /\ MentionMayStart(s, i)) THEN 0
  ELSE LET e == RunEndNot(s, i + 1, Whitespace)
       IN  IF e > i + 1 THEN e ELSE 0

\* The literal of str.replace, as a match.
LitEnd(s, i, lit) == IF MatchAt(s, i, lit) THEN i + Len(lit) ELSE 0

MatchEnd(kind, s, i) ==
  CASE kind = "user" -> UserEnd(s, i)
    [] kind = "role" -> RoleEnd(s, i)
    [] kind = "channel" -> ChannelEnd(s, i)
    [] kind = "escape" -> i + 1
    [] kind = "everyone" -> LitEnd(s, i, S_Everyone)
    [] kind = "here" -> LitEnd(s, i, S_Here)
    [] kind = "url" -> UrlEnd(s, i)
    [] kind = "bold" -> PairEnd(s, i, <<"*", "*">>)
    [] kind = "strike" -> PairEnd(s, i, <<"~", "~">>)
    [] kind = "italic_aster" -> ItalicEnd(s, i, "*")
    [] kind = "italic_under" -> ItalicEnd(s, i, "_")
    [] kind = "at" -> AtEnd(s, i)
    [] kind = "hash" -> HashEnd(s, i)

\* The characters a match can begin with.
FirstChars(kind) ==
  CASE kind \in {"user", "role", "channel"} -> {"<"}
    [] kind = "escape" -> EscapedChars
    [] kind \in {"everyone", "here", "at"} -> {"@"}
    [] kind = "url" -> {"h"}
    [] kind \in {"bold", "italic_aster"} -> {"*"}
    [] kind = "strike" -> {"~"}
    [] kind = "italic_under" -> {"_"}
    [] kind = "hash" -> {"#"}

\* What the match s[i:e] is replaced by.
Replacement(kind, g, s, i, e) ==
  CASE kind = "user" -> DisplayUser(g, IntOf(s, UserStart(s, i), e - 1))
    [] kind = "role" -> DisplayRole(g, IntOf(s, i + 3, e - 1))
    [] kind = "channel" -> DisplayChannel(g, IntOf(s, i + 2, e - 1))
    [] kind = "escape" -> EscapeChar(s[i])
    [] kind \in {"everyone", "here"} ->
         S_PingOpen \o Slice(s, i, e) \o S_SpanClose
    [] kind = "url" ->
         S_AHref \o Slice(s, i, e) \o S_AMid \o Slice(s, i, e) \o S_AClose
    [] kind = "bold" -> S_StrongOpen \o Slice(s, i + 2, e - 2) \o S_StrongClose
    [] kind = "strike" -> S_DelOpen \o Slice(s, i + 2, e - 2) \o S_DelClose
    [] kind \in {"italic_aster", "italic_under"} ->
         S_EmOpen \o Slice(s, i + 1, e - 1) \o S_EmClose
    [] kind \in {"at", "hash"} ->
         S_MentionOpen \o Slice(s, i, e) \o S_SpanClose

\* pattern.sub(repl, s), s.replace(old, new) and html.escape(s): scanning
\* from i, the leftmost match is replaced and the scan goes on where the
\* match ended; a position where nothing matches is copied.  j is the next
\* position where a match can begin.
RECURSIVE SubFrom(_, _, _, _)
SubFrom(kind, g, s, i) ==
  LET j == NextIn(s, i, FirstChars(kind))
  IN  IF j = 0 THEN Slice(s, i, Len(s) + 1)
      ELSE LET e == MatchEnd(kind, s, j)
           IN  IF e = 0
                 THEN Slice(s, i, j + 1) \o SubFrom(kind, g, s, j + 1)
                 ELSE Slice(s, i, j) \o Replacement(kind, g, s, j, e)
                        \o SubFrom(kind, g, s, e)

Sub(kind, g, s) == SubFrom(kind, g, s, 1)

\* Variant: a string escaped a second time.
EscapeTwice(s) == Sub("escape", NoGuild, Sub("escape", NoGuild, s))

\* html.escape(s)
Escape(s) == Sub("escape", NoGuild, s)

\* replace_discord_mentions_to_names                         (lines 249-253)
ReplaceMentions(s, g) == Sub("channel", g, Sub("role", g, Sub("user", g, s)))

\* linkify_escaped                                           (lines 255-257)
Linkify(s) == Sub("url", NoGuild, s)

\* apply_inline_formatting                                   (lines 259-281)
RECURSIVE ApplyPasses(_, _)
ApplyPasses(s, kinds) ==
  IF kinds = << >> THEN s
  ELSE ApplyPasses(Sub(Head(kinds), NoGuild, s), Tail(kinds))

InlinePasses ==
  <<"everyone", "here", "url", "bold", "strike", "italic_aster",
    "italic_under", "at", "hash">>

ApplyInlineFormatting(s) == ApplyPasses(s, InlinePasses)

\* Variant: the parity test applied to the 1-based position.
IsCodeOffByOne(k) == k % 2 = 1

\* is_code = (i % 2 == 1), for the 1-based position k = i + 1      (line 297)
IsCode(k) == (k - 1) % 2 = 1

\* One code part.                                            (lines 300-312)
RenderCode(part) ==
  LET nl == FindLit(part, 1, S_Newline)
      first == IF nl = 0 THEN << >> ELSE Slice(part, 1, nl)
      label == Strip(first)
      isLang == /\ nl # 0
                /\ Len(first) <= 20
                /\ label # << >>
                /\ \A k \in 1..Len(label) : label[k] \in LangChars
      code == IF isLang THEN Slice(part, nl + 1, Len(part) + 1) ELSE part
      lang == IF isLang THEN label ELSE << >>
  IN  S_CodeOpen \o Escape(code) \o S_CodeClose \o
      (IF lang # << >> THEN S_LangOpen \o Escape(lang) \o S_DivClose ELSE << >>)

\* Variant: the text of a heading passed through the inline formatter too.
RenderLineFormatted(line) ==
  IF MatchAt(line, 1, <<"#", "#", "#", " ">>)
    THEN S_H3Open \o ApplyInlineFormatting(Escape(Slice(line, 5, Len(line) + 1)))
           \o S_DivClose
  ELSE IF MatchAt(line, 1, <<"#", "#", " ">>)
    THEN S_H2Open \o ApplyInlineFormatting(Escape(Slice(line, 4, Len(line) + 1)))
           \o S_DivClose
  ELSE IF MatchAt(line, 1, <<"#", " ">>)
    THEN S_H1Open \o ApplyInlineFormatting(Escape(Slice(line, 3, Len(line) + 1)))
           \o S_DivClose
  ELSE ApplyInlineFormatting(Escape(line))

\* One line of a prose part.                                 (lines 318-327)
RenderLine(line) ==
  IF MatchAt(line, 1, <<"#", "#", "#", " ">>)
    THEN S_H3Open \o Escape(Slice(line, 5, Len(line) + 1)) \o S_DivClose
  ELSE IF MatchAt(line, 1, <<"#", "#", " ">>)
    THEN S_H2Open \o Escape(Slice(line, 4, Len(line) + 1)) \o S_DivClose
  ELSE IF MatchAt(line, 1, <<"#", " ">>)
    THEN S_H1Open \o Escape(Slice(line, 3, Len(line) + 1)) \o S_DivClose
  ELSE ApplyInlineFormatting(Escape(line))

\* One prose part.                                           (lines 315-328)
RenderProse(part) ==
  LET ls == SplitLines(part)
      lines == IF ls = << >> THEN << << >> >> ELSE ls
  IN  JoinWith([k \in 1..Len(lines) |-> RenderLine(lines[k])], S_Br)

\* The body of the loop over parts.                          (lines 296-328)
RenderPart(k, part) == IF IsCode(k) THEN RenderCode(part) ELSE RenderProse(part)

\* render_discord_markdown as one function.                  (lines 283-330)
RenderDiscordMarkdown(s, g) ==
  LET ps == Split(ReplaceMentions(s, g), S_Fence)
  IN  Concat([k \in 1..Len(ps) |-> RenderPart(k, ps[k])])

\* Tokens a message is made of, for the block structure: the fence, a line
\* break, emphasis, a # token (also a valid language label) and a user
\* reference.
RenderTokens ==
  { S_Fence, S_Newline,
    <<"*", "*", "b", "*", "*">>,
    <<"#", "c">>,
    <<"<", "@", "1", ">">> }

\* The longest message, in tokens.
MaxTokens == 4

Messages ==
  { Concat(ts) : ts \in UNION { [1..n -> RenderTokens] : n \in 0..MaxTokens } }

\* A guild where ids 1 resolve and every other id does not.
Guild1 ==
  [present |-> TRUE, members |-> (1 :> <<"m">>), roles |-> (1 :> <<"r">>),
   channels |-> (1 :> <<"c">>)]

Guilds == {NoGuild, Guild1}

RInit ==
  /\ rpc = "idle"
  /\ raw = << >>
  /\ guild = NoGuild
  /\ text = << >>
  /\ parts = << >>
  /\ out = << >>
  /\ body = << >>

\* render_discord_markdown(raw_text, guild) is called.            (line 283)
Receive(m, g) ==
  /\ rpc = "idle"
  /\ raw' = m
  /\ guild' = g
  /\ rpc' = "resolve"
  /\ UNCHANGED <<text, parts, out, body, dvars, avars, cogvars>>

\* raw_text = replace_discord_mentions_to_names(raw_text, guild)  (line 291)
Resolve ==
  /\ rpc = "resolve"
  /\ text' = ReplaceMentions(raw, guild)
  /\ rpc' = "split"
  /\ UNCHANGED <<raw, guild, parts, out, body, dvars, avars, cogvars>>

\* parts = raw_text.split of the fence; out = []             (lines 293-294)
SplitParts ==
  /\ rpc = "split"
  /\ parts' = Split(text, S_Fence)
  /\ out' = << >>
  /\ rpc' = "loop"
  /\ UNCHANGED <<raw, guild, text, body, dvars, avars, cogvars>>

\* One iteration of the loop over parts.                     (lines 296-328)
RenderNext ==
  /\ rpc = "loop"
  /\ Len(out) < Len(parts)
  /\ out' = Append(out, RenderPart(Len(out) + 1, parts[Len(out) + 1]))
  /\ UNCHANGED <<rpc, raw, guild, text, parts, body, dvars, avars, cogvars>>

\* return "".join(out)                                            (line 330)
Join ==
  /\ rpc = "loop"
  /\ Len(out) = Len(parts)
  /\ body' = Concat(out)
  /\ rpc' = "done"
  /\ UNCHANGED <<raw, guild, text, parts, out, dvars, avars, cogvars>>

RenderStep == Resolve \/ SplitParts \/ RenderNext \/ Join

\* One resumption of invocation i.
Step(i) ==
  \/ \E res \in ChunkResults : Chunk(i, res)
  \/ \E res \in Results : FetchFail(i, res)
  \/ FetchOk(i)
  \/ \E res \in Results : Send(i, res)
  \/ \E res \in Results : Report(i, res)

\* A user issues !export in some channel with some limit.
Command(i) ==
  \E limit \in Limits, ch \in Channels, pre \in PreChecks :
    Invoke(i, limit, ch, pre)

\* Two commands in flight at once (two channels exported at once); the event
\* loop interleaves them at their awaits.
PairLimits == {10, 100, MAX_LIMIT}
PairChannels == { ch \in Channels : ch.fragBytes \in {300, 20000, 200000} }
PairCommand(i) ==
  \E limit \in PairLimits, ch \in PairChannels : Invoke(i, limit, ch, "ok")


(***************************************************************************)
(* Part III.  The attachment block of one message, attachments_to_html     *)
(* (src/cogs/export_html.py:356-384).  An element of the block is recorded *)
(* by its kind and by the url and filename it shows; the block is the      *)
(* sequence of its top-level elements in document order.                   *)
(***************************************************************************)

S_ImagePrefix == <<"i", "m", "a", "g", "e", "/">>
\* (".png", ".jpg", ".jpeg", ".gif", ".webp")                      (line 365)
ImageSuffixes ==
  { <<".", "p", "n", "g">>, <<".", "j", "p", "g">>, <<".", "j", "p", "e", "g">>,
    <<".", "g", "i", "f">>, <<".", "w", "e", "b", "p">> }

UpperCase == <<"A", "B", "C", "D", "E", "F", "G", "H", "I", "J", "K", "L", "M",
               "N", "O", "P", "Q", "R", "S", "T", "U", "V", "W", "X", "Y", "Z">>
LowerCase == <<"a", "b", "c", "d", "e", "f", "g", "h", "i", "j", "k", "l", "m",
               "n", "o", "p", "q", "r", "s", "t", "u", "v", "w", "x", "y", "z">>

\* s.lower()
Lower(s) ==
  [k \in 1..Len(s) |->
     IF \E u \in 1..26 : UpperCase[u] = s[k]
       THEN LowerCase[CHOOSE u \in 1..26 : UpperCase[u] = s[k]] ELSE s[k]]

\* s.endswith(suffix)
EndsWith(s, suffix) ==
  Len(suffix) <= Len(s) /\ MatchAt(s, Len(s) - Len(suffix) + 1, suffix)

\* is_img; content_type None is the empty string.           (lines 364-366)
IsImg(a) ==
  \/ MatchAt(a.content_type, 1, S_ImagePrefix)
  \/ \E suffix \in ImageSuffixes : EndsWith(Lower(a.filename), suffix)

\* <a href=url ...><img src=url alt=filename></a>            (lines 368-371)
Thumb(a) == [kind |-> "thumb", url |-> a.url, name |-> a.filename, children |-> << >>]
\* <div class="filelink"><a href=url ...>filename</a></div>  (lines 373-376)
FileLink(a) == [kind |-> "filelink", url |-> a.url, name |-> a.filename, children |-> << >>]
\* <div class="attach"> imgs </div>                                 (line 380)
AttachDiv(es) == [kind |-> "attach", url |-> 0, name |-> << >>, children |-> es]

\* Declared content types (None, an image type, another type) and filenames
\* (an image suffix in lower and in upper case, another suffix).
ContentTypes == { << >>, S_ImagePrefix \o <<"x">>, <<"t", "/", "x">> }
Filenames == { <<"a", ".", "g", "i", "f">>, <<"A", ".", "G", "I", "F">>,
               <<"a", ".", "t", "x", "t">> }
AttachmentKinds == [content_type : ContentTypes, filename : Filenames]

MaxAttachments == 3

\* The attachment lists of a message; the url of an attachment is its
\* position in the list.
AttachmentLists ==
  { [k \in DOMAIN f |-> [url |-> k, content_type |-> f[k].content_type,
                         filename |-> f[k].filename]] :
      f \in UNION { [1..n -> AttachmentKinds] : n \in 0..MaxAttachments } }

AInit ==
  /\ apc = "idle"
  /\ atts = << >>
  /\ imgs = << >>
  /\ files = << >>
  /\ block = << >>

\* attachments_to_html(message) is called; without attachments it returns
\* the empty string at once.                                 (lines 356-361)
AttachStart(as) ==
  /\ apc = "idle"
  /\ atts' = as
  /\ imgs' = << >>
  /\ files' = << >>
  /\ block' = << >>
  /\ apc' = IF as = << >> THEN "done" ELSE "loop"
  /\ UNCHANGED <<dvars, rvars, cogvars>>

\* One iteration of the loop over message.attachments.       (lines 363-376)
AttachNext ==
  /\ apc = "loop"
  /\ Len(imgs) + Len(files) < Len(atts)
  /\ LET a == atts[Len(imgs) + Len(files) + 1]
     IN  IF IsImg(a)
           THEN imgs' = Append(imgs, Thumb(a)) /\ UNCHANGED files
           ELSE files' = Append(files, FileLink(a)) /\ UNCHANGED imgs
  /\ UNCHANGED <<apc, atts, block, dvars, rvars, cogvars>>

\* attach_block: the images in one div, then the file links. (lines 378-384)
AttachFinish ==
  /\ apc = "loop"
  /\ Len(imgs) + Len(files) = Len(atts)
  /\ block' = (IF imgs # << >> THEN <<AttachDiv(imgs)>> ELSE << >>) \o files
  /\ apc' = "done"
  /\ UNCHANGED <<atts, imgs, files, dvars, rvars, cogvars>>

(***************************************************************************)
(* Part IV.  SetupVCSessionCategoriesCog                                   *)
(*                                                                         *)
(* The guild is seen twice: vc_discord is what Discord holds and changes   *)
(* when a request is answered; vc_guild is the cache guild.text_channels   *)
(* and guild.get_channel read, which learns of a created channel when      *)
(* create_text_channel returns and of a deleted one when the gateway       *)
(* event arrives.                                                          *)
(***************************************************************************)

\* The members that press buttons, and their guild_permissions.
Members == {"u1", "u2", "mod", "adm"}
NoMember == "nobody"
GuildPermissions ==
  [m \in Members |->
     [administrator |-> m = "adm", manage_channels |-> m = "mod"]]

\* The button presses that can be in flight at once.
Presses == {"p", "q"}

\* Buttons of SessionSelectView the presses use         (lines 51-61)
NumSessions == 2
Sessions == 1..NumSessions

\* The ids Discord hands out; a press that would need one more waits.
MaxSessionChannels == 2

\* _is_adminish                                           (lines 37-39)
VcIsAdminish(member) ==
  GuildPermissions[member].administrator
    \/ GuildPermissions[member].manage_channels

\* _text_name_for_session                                 (lines 42-43)
TextNameForSession(session_no) == <<"session", session_no, "private">>

\* What lines 124-160 can find: everything in place ("ok") or the first
\* thing that is missing.
SessionPreChecks ==
  {"ok", "no_guild", "no_member", "no_voice", "no_spectator", "no_category"}

\* voice.members when line 141 reads it.
VoiceStates == { {}, {"u1"} }

\* How Discord answers a request.
VcResults == {"ok", "forbidden"}

VcNoLocal == [user |-> NoMember, session_no |-> 0, ch |-> 0, overwrites |-> {}]

\* discord.utils.get(guild.text_channels, name=name, category=category):
\* the cached channels it can return.
Existing(name, category) ==
  {id \in vc_guild :
     vc_discord[id].name = name /\ vc_discord[id].category = category}

\* What is left of a channel Discord has deleted: the name and the category
\* the cache still shows until the gateway event arrives.
Deleted(ch) ==
  [name |-> ch.name, category |-> ch.category, overwrites |-> {},
   made_by |-> NoMember, live |-> FALSE, button |-> FALSE]

\* self.db[str(text_ch.id)] = {...}                       (lines 195-201)
VcDbPut(db, id, user, session_no) ==
  [k \in DOMAIN db \cup {id} |->
     IF k = id THEN [creator_id |-> user, session_no |-> session_no]
     ELSE db[k]]

\* self.db.pop(str(text_channel_id), None)
VcDbPop(db, id) == [k \in DOMAIN db \ {id} |-> db[k]]

\* A handler ends: after its last followup.send, or with the exception
\* that escapes it.
VcFinish(p) ==
  /\ vc_pc' = [vc_pc EXCEPT ![p] = "idle"]
  /\ vc_local' = [vc_local EXCEPT ![p] = VcNoLocal]

VInit ==
  /\ vc_pc = [p \in Presses |-> "idle"]
  /\ vc_local = [p \in Presses |-> VcNoLocal]
  /\ vc_discord = << >>
  /\ vc_guild = {}
  /\ vc_db = << >>

\* A session button is pressed: handle_create up to the await of defer.
\*                                                        (lines 121-122)
SessionPress(p, user, session_no) ==
  /\ vc_pc[p] = "idle"
  /\ vc_pc' = [vc_pc EXCEPT ![p] = "defer"]
  /\ vc_local' = [vc_local EXCEPT ![p] =
                    [VcNoLocal EXCEPT !.user = user, !.session_no = session_no]]
  /\ UNCHANGED <<vc_discord, vc_guild, vc_db, dvars, rvars, avars, scvars>>

\* defer has returned: the checks, the overwrites, the lookup of the
\* existing channel and the request to edit or to create. (lines 124-184)
SessionChecks(p, pre, members) ==
  /\ vc_pc[p] = "defer"
  /\ vc_local[p].session_no # 0
  /\ LET user == vc_local[p].user
         session_no == vc_local[p].session_no
         name == TextNameForSession(session_no)
         overwrites == {user} \cup members
     IN  IF pre # "ok" THEN VcFinish(p)
         ELSE IF members = {} THEN VcFinish(p)
         ELSE /\ IF Existing(name, session_no) # {}
                   THEN \E existing \in Existing(name, session_no) :
                          /\ vc_pc' = [vc_pc EXCEPT ![p] = "edit"]
                          /\ vc_local' = [vc_local EXCEPT ![p].ch = existing,
                                            ![p].overwrites = overwrites]
                   ELSE /\ Len(vc_discord) < MaxSessionChannels
                        /\ vc_pc' = [vc_pc EXCEPT ![p] = "create"]
                        /\ vc_local' = [vc_local EXCEPT
                                          ![p].overwrites = overwrites]
  /\ UNCHANGED <<vc_discord, vc_guild, vc_db, dvars, rvars, avars, scvars>>

\* existing.edit has returned: the record of the channel is overwritten
\* with the presser as creator_id, and the notice is sent. (lines 176-218)
SessionEdit(p, res) ==
  /\ vc_pc[p] = "edit"
  /\ LET ch == vc_local[p].ch
     IN  IF ~vc_discord[ch].live
           THEN /\ res = "ok"
                /\ VcFinish(p)
                /\ UNCHANGED <<vc_discord, vc_db>>
         ELSE IF res = "forbidden"
           THEN /\ VcFinish(p)
                /\ UNCHANGED <<vc_discord, vc_db>>
         ELSE /\ vc_discord' = [vc_discord EXCEPT
                                  ![ch].overwrites = vc_local[p].overwrites]
              /\ vc_db' = VcDbPut(vc_db, ch, vc_local[p].user,
                                  vc_local[p].session_no)
              /\ vc_pc' = [vc_pc EXCEPT ![p] = "send"]
              /\ UNCHANGED vc_local
  /\ UNCHANGED <<vc_guild, dvars, rvars, avars, scvars>>

\* guild.create_text_channel has returned: Discord holds a new channel, the
\* cache knows it, its record is written and the notice is sent.
\*                                                        (lines 183-218)
SessionCreate(p, res) ==
  /\ vc_pc[p] = "create"
  /\ IF res = "forbidden"
       THEN /\ VcFinish(p)
            /\ UNCHANGED <<vc_discord, vc_guild, vc_db>>
     ELSE LET id == Len(vc_discord) + 1
              session_no == vc_local[p].session_no
          IN  /\ id <= MaxSessionChannels
              /\ vc_discord' = Append(vc_discord,
                   [name |-> TextNameForSession(session_no),
                    category |-> session_no,
                    overwrites |-> vc_local[p].overwrites,
                    made_by |-> vc_local[p].user,
                    live |-> TRUE, button |-> FALSE])
              /\ vc_guild' = vc_guild \cup {id}
              /\ vc_db' = VcDbPut(vc_db, id, vc_local[p].user, session_no)
              /\ vc_pc' = [vc_pc EXCEPT ![p] = "send"]
              /\ vc_local' = [vc_local EXCEPT ![p].ch = id]
  /\ UNCHANGED <<dvars, rvars, avars, scvars>>

\* text_ch.send has returned: the channel shows the delete button, and the
\* presser is told.                                       (lines 217-223)
SessionSend(p, res) ==
  /\ vc_pc[p] = "send"
  /\ LET ch == vc_local[p].ch
     IN  IF ~vc_discord[ch].live
           THEN /\ res = "ok"
                /\ VcFinish(p)
                /\ UNCHANGED vc_discord
         ELSE IF res = "forbidden"
           THEN /\ VcFinish(p)
                /\ UNCHANGED vc_discord
         ELSE /\ vc_discord' = [vc_discord EXCEPT ![ch].button = TRUE]
              /\ VcFinish(p)
  /\ UNCHANGED <<vc_guild, vc_db, dvars, rvars, avars, scvars>>

\* The delete button of a channel is pressed: handle_delete up to the await
\* of defer.                                              (lines 225-226)
SessionDeletePress(p, member, text_channel_id) ==
  /\ vc_pc[p] = "idle"
  /\ text_channel_id \in 1..Len(vc_discord)
  /\ vc_discord[text_channel_id].live
  /\ vc_discord[text_channel_id].button
  /\ vc_pc' = [vc_pc EXCEPT ![p] = "ddefer"]
  /\ vc_local' = [vc_local EXCEPT ![p] =
                    [VcNoLocal EXCEPT !.user = member, !.ch = text_channel_id]]
  /\ UNCHANGED <<vc_discord, vc_guild, vc_db, dvars, rvars, avars, scvars>>

\* defer has returned: the checks, the lookup of the channel and of its
\* record, the authorization and the request to delete.   (lines 228-255)
SessionDeleteChecks(p, pre) ==
  /\ vc_pc[p] = "ddefer"
  /\ LET member == vc_local[p].user
         text_channel_id == vc_local[p].ch
         creator_id == IF text_channel_id \in DOMAIN vc_db
                         THEN vc_db[text_channel_id].creator_id
                         ELSE NoMember
     IN  IF pre # "ok"
           THEN VcFinish(p) /\ UNCHANGED vc_db
         ELSE IF text_channel_id \notin vc_guild
           THEN /\ vc_db' = VcDbPop(vc_db, text_channel_id)
                /\ VcFinish(p)
         ELSE IF creator_id # member /\ ~VcIsAdminish(member)
           THEN VcFinish(p) /\ UNCHANGED vc_db
         ELSE /\ vc_pc' = [vc_pc EXCEPT ![p] = "delete"]
              /\ UNCHANGED <<vc_local, vc_db>>
  /\ UNCHANGED <<vc_discord, vc_guild, dvars, rvars, avars, scvars>>

\* ch.delete has returned: Discord has deleted the channel in the name of
\* the presser, and the record is dropped.                (lines 254-262)
SessionDelete(p, res) ==
  /\ vc_pc[p] = "delete"
  /\ LET ch == vc_local[p].ch
     IN  IF ~vc_discord[ch].live
           THEN /\ res = "ok"
                /\ VcFinish(p)
                /\ UNCHANGED <<vc_discord, vc_db>>
         ELSE IF res = "forbidden"
           THEN /\ VcFinish(p)
                /\ UNCHANGED <<vc_discord, vc_db>>
         ELSE /\ vc_discord' = [vc_discord EXCEPT ![ch] = Deleted(@)]
              /\ vc_db' = VcDbPop(vc_db, ch)
              /\ VcFinish(p)
  /\ UNCHANGED <<vc_guild, dvars, rvars, avars, scvars>>

\* The gateway event of a deleted channel arrives: the cache forgets it.
SessionChannelGone(id) ==
  /\ id \in vc_guild
  /\ ~vc_discord[id].live
  /\ vc_guild' = vc_guild \ {id}
  /\ UNCHANGED <<vc_pc, vc_local, vc_discord, vc_db, dvars, rvars, avars, scvars>>

(***************************************************************************)
(* Part V.  SetupChannelsCog                                               *)
(*                                                                         *)
(* sc_discord is what Discord holds, with what its audit log keeps of a    *)
(* channel (who it was made for and by, who had it deleted); sc_guild is   *)
(* the cache guild.get_channel reads.  A channel can also be deleted by    *)
(* hand, outside the bot: the branch of lines 419-422 is there for that.   *)
(***************************************************************************)

\* The channels Discord lets the shared-create and the individual-create
\* buttons make; beyond them its answer is an error.
MaxSharedChannels == 1
MaxIndividualChannels == 2
MaxSetupChannels == MaxSharedChannels + MaxIndividualChannels

\* _is_adminish that takes any permission record for an admin's
IsAdminishAnyone(member) ==
  GuildPermissions[member].administrator \in BOOLEAN

\* _is_adminish                                           (lines 43-45)
IsAdminish(member) ==
  GuildPermissions[member].administrator
    \/ GuildPermissions[member].manage_channels

\* What the checks before the first request can find.    (lines 222-245,
\* 303-331)
SharedPreChecks == {"ok", "no_guild", "no_member", "no_vc", "no_category"}
IndividualPreChecks == SharedPreChecks \cup {"no_spectator"}
DeletePreChecks == {"ok", "no_guild", "no_member"}

\* list(vc.members) when the handler reads it.
MaxVcMembers == 2
VcMemberLists ==
  { ms \in UNION { [1..n -> Members] : n \in 0..MaxVcMembers } :
      \A i, j \in DOMAIN ms : i # j => ms[i] # ms[j] }

\* How Discord answers a request: done, discord.Forbidden, or another
\* exception (discord.HTTPException, discord.NotFound).
ScResults == {"ok", "forbidden", "error"}

ScNoLocal ==
  [user |-> NoMember, session_no |-> 0, ch |-> 0, vc_members |-> << >>,
   k |-> 0, created |-> 0, failed |-> << >>, counted |-> {}]

\* The channel guild.create_text_channel returns.   (lines 265-270, 359-364)
NewChannel(name, invoker, target) ==
  [name |-> name, made_by |-> invoker, target |-> target,
   live |-> TRUE, button |-> FALSE, deleted_by |-> NoMember]

\* _shared_channel_title, without the time of day         (lines 51-56)
SharedChannelTitle(session_no) == <<"session", session_no>>

\* _individual_channel_title                              (lines 74-79)
IndividualChannelTitle(session_no, member) == <<"individual", session_no, member>>

\* self.db[str(text_ch.id)] = {...}               (lines 276-281, 368-374)
ScDbPut(db, id, invoker, session_no, type, target) ==
  [k \in DOMAIN db \cup {id} |->
     IF k = id
       THEN [creator_id |-> invoker, session_no |-> session_no,
             type |-> type, target_member_id |-> target]
       ELSE db[k]]

\* self.db.pop(str(channel_id), None)
ScDbPop(db, id) == [k \in DOMAIN db \ {id} |-> db[k]]

\* The last await of a handler, interaction.followup.send of one of its
\* messages; "raised" stands for the exception that escapes it instead.
Said ==
  {"said_precheck", "said_empty_vc", "said_forbidden", "said_created",
   "said_not_found", "said_refused", "said_deleted", "raised"}

ScFinish(p, how) ==
  /\ sc_pc' = [sc_pc EXCEPT ![p] = how]
  /\ sc_local' = [sc_local EXCEPT ![p] = ScNoLocal]

\* followup.send has returned, or the exception has been logged: the
\* handler is over.
Return(p) ==
  /\ sc_pc[p] \in Said
  /\ sc_pc' = [sc_pc EXCEPT ![p] = "idle"]
  /\ UNCHANGED <<sc_local, sc_discord, sc_guild, sc_db, dvars, rvars, avars,
                 vcvars>>

SInit ==
  /\ sc_pc = [p \in Presses |-> "idle"]
  /\ sc_local = [p \in Presses |-> ScNoLocal]
  /\ sc_discord = << >>
  /\ sc_guild = {}
  /\ sc_db = << >>

\* A shared-create button is pressed: handle_shared_create up to the await
\* of defer.                                              (lines 219-220)
SharedPress(p, invoker, session_no) ==
  /\ sc_pc[p] = "idle"
  /\ sc_pc' = [sc_pc EXCEPT ![p] = "sdefer"]
  /\ sc_local' = [sc_local EXCEPT ![p] =
                    [ScNoLocal EXCEPT !.user = invoker, !.session_no = session_no]]
  /\ UNCHANGED <<sc_discord, sc_guild, sc_db, dvars, rvars, avars, vcvars>>

\* defer has returned: the checks and the request to create.
\*                                                        (lines 222-270)
SharedChecks(p, pre, members) ==
  /\ sc_pc[p] = "sdefer"
  /\ IF pre # "ok" THEN ScFinish(p, "said_precheck")
     ELSE IF members = << >> THEN ScFinish(p, "said_empty_vc")
       ELSE /\ sc_pc' = [sc_pc EXCEPT ![p] = "screate"]
            /\ UNCHANGED sc_local
  /\ UNCHANGED <<sc_discord, sc_guild, sc_db, dvars, rvars, avars, vcvars>>

\* guild.create_text_channel has returned: the channel is recorded with
\* the invoker as creator_id, and the notice is sent.     (lines 264-293)
SharedCreate(p, res) ==
  /\ sc_pc[p] = "screate"
  /\ res = "ok" => Len(sc_discord) < MaxSharedChannels
  /\ IF res # "ok"
       THEN /\ ScFinish(p, IF res = "forbidden" THEN "said_forbidden"
                                                ELSE "raised")
            /\ UNCHANGED <<sc_discord, sc_guild, sc_db>>
     ELSE LET id == Len(sc_discord) + 1
              invoker == sc_local[p].user
              session_no == sc_local[p].session_no
          IN  /\ sc_discord' = Append(sc_discord,
                   NewChannel(SharedChannelTitle(session_no), invoker, NoMember))
              /\ sc_guild' = sc_guild \cup {id}
              /\ sc_db' = ScDbPut(sc_db, id, invoker, session_no, "shared",
                                  NoMember)
              /\ sc_pc' = [sc_pc EXCEPT ![p] = "ssend"]
              /\ sc_local' = [sc_local EXCEPT ![p].ch = id]
  /\ UNCHANGED <<dvars, rvars, avars, vcvars>>

\* text_ch.send has returned: the channel shows the delete button; an
\* exception of send escapes.                             (lines 293-295)
SharedSend(p, res) ==
  /\ sc_pc[p] = "ssend"
  /\ LET ch == sc_local[p].ch
     IN  /\ res = "ok" => sc_discord[ch].live
         /\ IF res = "ok"
              THEN sc_discord' = [sc_discord EXCEPT ![ch].button = TRUE]
              ELSE UNCHANGED sc_discord
  /\ ScFinish(p, IF res = "ok" THEN "said_created" ELSE "raised")
  /\ UNCHANGED <<sc_guild, sc_db, dvars, rvars, avars, vcvars>>

\* An individual-create button is pressed: handle_individual_create up to
\* the await of defer.                                    (lines 300-301)
IndividualPress(p, invoker, session_no) ==
  /\ sc_pc[p] = "idle"
  /\ sc_pc' = [sc_pc EXCEPT ![p] = "idefer"]
  /\ sc_local' = [sc_local EXCEPT ![p] =
                    [ScNoLocal EXCEPT !.user = invoker, !.session_no = session_no]]
  /\ UNCHANGED <<sc_discord, sc_guild, sc_db, dvars, rvars, avars, vcvars>>

\* defer has returned: the checks, created = 0, failed = [], and the
\* request to create the channel of the first member.     (lines 303-364)
IndividualChecks(p, pre, members) ==
  /\ sc_pc[p] = "idefer"
  /\ IF pre # "ok" THEN ScFinish(p, "said_precheck")
     ELSE IF members = << >> THEN ScFinish(p, "said_empty_vc")
       ELSE /\ sc_pc' = [sc_pc EXCEPT ![p] = "icreate"]
            /\ sc_local' = [sc_local EXCEPT ![p].vc_members = members,
                              ![p].k = 1]
  /\ UNCHANGED <<sc_discord, sc_guild, sc_db, dvars, rvars, avars, vcvars>>

\* The loop goes on after a member is dealt with: the request for the next
\* member, or the report after the last.                  (lines 336, 395-399)
NextTarget(local) ==
  IF local.k = Len(local.vc_members) THEN "ireport" ELSE "icreate"

\* guild.create_text_channel has returned for vc_members[k]: on success the
\* member is counted, the channel recorded and the notice sent; on any
\* exception the name goes to failed.           (lines 358-388, 390-393)
IndividualCreate(p, res) ==
  /\ sc_pc[p] = "icreate"
  /\ res = "ok" => Len(sc_discord) < MaxIndividualChannels
  /\ LET l == sc_local[p]
         target == l.vc_members[l.k]
         id == Len(sc_discord) + 1
     IN  IF res # "ok"
           THEN /\ sc_pc' = [sc_pc EXCEPT ![p] = NextTarget(l)]
                /\ sc_local' = [sc_local EXCEPT
                                  ![p].failed = Append(l.failed, target),
                                  ![p].k = IF NextTarget(l) = "icreate"
                                             THEN l.k + 1 ELSE l.k]
                /\ UNCHANGED <<sc_discord, sc_guild, sc_db>>
         ELSE /\ sc_discord' = Append(sc_discord,
                   NewChannel(IndividualChannelTitle(l.session_no, target),
                              l.user, target))
              /\ sc_guild' = sc_guild \cup {id}
              /\ sc_db' = ScDbPut(sc_db, id, l.user, l.session_no,
                                  "individual", target)
              /\ sc_pc' = [sc_pc EXCEPT ![p] = "isend"]
              /\ sc_local' = [sc_local EXCEPT ![p].ch = id,
                                ![p].created = l.created + 1,
                                ![p].counted = l.counted \cup {target}]
  /\ UNCHANGED <<dvars, rvars, avars, vcvars>>

\* text_ch.send has returned for vc_members[k]: the channel shows the
\* delete button, or the exception of send puts the name on failed.
\*                                                        (lines 388-393)
IndividualSend(p, res) ==
  /\ sc_pc[p] = "isend"
  /\ LET l == sc_local[p]
         target == l.vc_members[l.k]
     IN  /\ res = "ok" => sc_discord[l.ch].live
         /\ IF res = "ok"
              THEN /\ sc_discord' = [sc_discord EXCEPT ![l.ch].button = TRUE]
                   /\ sc_local' = [sc_local EXCEPT
                                     ![p].k = IF NextTarget(l) = "icreate"
                                                THEN l.k + 1 ELSE l.k]
              ELSE /\ sc_local' = [sc_local EXCEPT
                                     ![p].failed = Append(l.failed, target),
                                     ![p].k = IF NextTarget(l) = "icreate"
                                                THEN l.k + 1 ELSE l.k]
                   /\ UNCHANGED sc_discord
         /\ sc_pc' = [sc_pc EXCEPT ![p] = NextTarget(l)]
  /\ UNCHANGED <<sc_guild, sc_db, dvars, rvars, avars, vcvars>>

\* The report, built from created and failed, has been sent. (lines 395-399)
IndividualReport(p) ==
  /\ sc_pc[p] = "ireport"
  /\ sc_pc' = [sc_pc EXCEPT ![p] = "idle"]
  /\ sc_local' = [sc_local EXCEPT ![p] = ScNoLocal]
  /\ UNCHANGED <<sc_discord, sc_guild, sc_db, dvars, rvars, avars, vcvars>>

\* The delete button of a channel is pressed: handle_delete up to the await
\* of defer.                                              (lines 404-405)
DeletePress(p, member, channel_id) ==
  /\ sc_pc[p] = "idle"
  /\ channel_id \in 1..Len(sc_discord)
  /\ sc_discord[channel_id].live
  /\ sc_discord[channel_id].button
  /\ sc_pc' = [sc_pc EXCEPT ![p] = "ddefer"]
  /\ sc_local' = [sc_local EXCEPT ![p] =
                    [ScNoLocal EXCEPT !.user = member, !.ch = channel_id]]
  /\ UNCHANGED <<sc_discord, sc_guild, sc_db, dvars, rvars, avars, vcvars>>

\* defer has returned: the checks, the lookup of the channel and of its
\* record, the authorization and the request to delete.   (lines 407-435)
DeleteChecks(p, pre) ==
  /\ sc_pc[p] = "ddefer"
  /\ LET member == sc_local[p].user
         channel_id == sc_local[p].ch
         creator_id == IF channel_id \in DOMAIN sc_db
                         THEN sc_db[channel_id].creator_id
                         ELSE NoMember
     IN  IF pre # "ok"
           THEN ScFinish(p, "said_precheck") /\ UNCHANGED sc_db
         ELSE IF channel_id \notin sc_guild
           THEN /\ sc_db' = ScDbPop(sc_db, channel_id)
                /\ ScFinish(p, "said_not_found")
         ELSE IF creator_id # member /\ ~IsAdminish(member)
           THEN ScFinish(p, "said_refused") /\ UNCHANGED sc_db
         ELSE /\ sc_pc' = [sc_pc EXCEPT ![p] = "delete"]
              /\ UNCHANGED <<sc_local, sc_db>>
  /\ UNCHANGED <<sc_discord, sc_guild, dvars, rvars, avars, vcvars>>

\* ch.delete has returned: Discord has deleted the channel in the name of
\* the presser and the record is dropped; Forbidden is reported, another
\* exception escapes.                                     (lines 434-443)
DeleteCall(p, res) ==
  /\ sc_pc[p] = "delete"
  /\ LET ch == sc_local[p].ch
     IN  /\ res = "ok" => sc_discord[ch].live
         /\ IF res = "ok"
              THEN /\ sc_discord' = [sc_discord EXCEPT ![ch].live = FALSE,
                                       ![ch].button = FALSE,
                                       ![ch].deleted_by = sc_local[p].user]
                   /\ sc_db' = ScDbPop(sc_db, ch)
              ELSE UNCHANGED <<sc_discord, sc_db>>
         /\ ScFinish(p, CASE res = "ok" -> "said_deleted"
                           [] res = "forbidden" -> "said_forbidden"
                           [] OTHER -> "raised")
  /\ UNCHANGED <<sc_guild, dvars, rvars, avars, vcvars>>

\* Somebody deletes the channel by hand in Discord.
DeletedOutside(id) ==
  /\ id \in 1..Len(sc_discord)
  /\ sc_discord[id].live
  /\ sc_discord' = [sc_discord EXCEPT ![id].live = FALSE, ![id].button = FALSE]
  /\ UNCHANGED <<sc_pc, sc_local, sc_guild, sc_db, dvars, rvars, avars, vcvars>>

\* The gateway event of a deleted channel arrives: the cache forgets it.
ChannelGone(id) ==
  /\ id \in sc_guild
  /\ ~sc_discord[id].live
  /\ sc_guild' = sc_guild \ {id}
  /\ UNCHANGED <<sc_pc, sc_local, sc_discord, sc_db, dvars, rvars, avars, vcvars>>

Init == DInit /\ RInit /\ AInit /\ VInit /\ SInit

\* One export command, run alone.
Next == Command("a") \/ Step("a")
Spec == Init /\ [][Next]_vars

\* The same, with every awaited call eventually returning.
FairSpec == Spec /\ WF_vars(Step("a"))

\* Two export commands interleaved.
PairNext == \E i \in Inv : PairCommand(i) \/ Step(i)
PairSpec == Init /\ [][PairNext]_vars

\* One message body rendered.
RenderNext0 == \E m \in Messages, g \in Guilds : Receive(m, g)
RenderSpec == Init /\ [][RenderNext0 \/ RenderStep]_vars

\* The attachment block of one message.
AttachNext0 == \E as \in AttachmentLists : AttachStart(as)
AttachSpec == Init /\ [][AttachNext0 \/ AttachNext \/ AttachFinish]_vars

\* The messages made of at most n of the given tokens.
MessagesOf(tokens, n) ==
  { Concat(ts) : ts \in UNION { [1..k -> tokens] : k \in 0..n } }

\* Message bodies with the characters html.escape replaces, on the prose,
\* heading and code paths, and a reference to a member whose display name
\* holds them too.
EscTokens ==
  { <<"<">>, <<">">>, <<"&">>, <<"\"">>,
    S_Fence, S_Newline,
    <<"#", " ">>,
    <<"<", "@", "1", ">">> }

MaxEscTokens == 3

GuildX ==
  [present |-> TRUE, members |-> (1 :> <<"<", ">", "&", "\"">>),
   roles |-> << >>, channels |-> << >>]

EscReceive ==
  \E m \in MessagesOf(EscTokens, MaxEscTokens), g \in {NoGuild, GuildX} :
    Receive(m, g)
EscapeSpec == Init /\ [][EscReceive \/ RenderStep]_vars

\* Message bodies with user, role and channel references, to ids the
\* directory knows (1) and does not know (7), between plain text.
MentionTokens ==
  { <<"<", "@", "1", ">">>, <<"<", "@", "!", "1", ">">>, <<"<", "@", "7", ">">>,
    <<"<", "@", "&", "1", ">">>, <<"<", "@", "&", "7", ">">>,
    <<"<", "#", "1", ">">>, <<"<", "#", "7", ">">>,
    <<"a">> }

MaxMentionTokens == 3

MentionReceive ==
  \E m \in MessagesOf(MentionTokens, MaxMentionTokens), g \in Guilds :
    Receive(m, g)
MentionSpec == Init /\ [][MentionReceive \/ RenderStep]_vars

\* One-line message bodies for the inline passes: the delimiters of bold,
\* strikethrough and italics around a letter,
EmphasisTokens == { <<"*", "*">>, <<"*">>, <<"_">>, <<"~", "~">>, <<"x">> }

MaxEmphasisTokens == 5

\* and the broadcast pings, a URL with a # that follows neither a slash nor
\* a word character, a letter, a delimiter and a blank.
LinkTokens ==
  { S_Everyone, S_Here,
    S_Http \o S_Scheme \o <<"a", "=", "#", "b">>,
    <<"x">>, <<"_">>, <<" ">> }

MaxLinkTokens == 2

InlineReceive ==
  \E m \in MessagesOf(EmphasisTokens, MaxEmphasisTokens)
             \cup MessagesOf(LinkTokens, MaxLinkTokens) :
    Receive(m, NoGuild)
InlineSpec == Init /\ [][InlineReceive \/ RenderStep]_vars

\* Prose with heading markers of every level, a # without a blank, a blank,
\* a line break, emphasis and a character to escape.
HeadingTokens ==
  { <<"#", " ">>, <<"#", "#", " ">>, <<"#", "#", "#", " ">>, <<"#">>, <<" ">>,
    S_Newline, <<"*", "*", "b", "*", "*">>, <<"<">> }

MaxHeadingTokens == 3

HeadingReceive ==
  \E m \in MessagesOf(HeadingTokens, MaxHeadingTokens) : Receive(m, NoGuild)
HeadingSpec == Init /\ [][HeadingReceive \/ RenderStep]_vars

\* One-line prose with each character html.escape replaces, the apostrophe
\* among them, next to a letter and a blank.
EntityTokens ==
  { <<"'">>, <<"\"">>, <<"&">>, <<"<">>, <<">">>, <<"x">>, <<" ">> }

MaxEntityTokens == 3

EntityReceive ==
  \E m \in MessagesOf(EntityTokens, MaxEntityTokens) : Receive(m, NoGuild)
EntitySpec == Init /\ [][EntityReceive \/ RenderStep]_vars

\* The members that press the buttons of the session cog: two without
\* permissions and a moderator.
SessionMembers == {"u1", "u2", "mod"}

\* The session cog alone: presses of the session buttons and of the delete
\* buttons by any member, every answer of Discord, and the gateway.
SessionNext ==
  \E p \in Presses :
    \/ \E user \in SessionMembers, n \in Sessions : SessionPress(p, user, n)
    \/ \E pre \in SessionPreChecks, vm \in VoiceStates : SessionChecks(p, pre, vm)
    \/ \E res \in VcResults : SessionEdit(p, res)
    \/ \E res \in VcResults : SessionCreate(p, res)
    \/ \E res \in VcResults : SessionSend(p, res)
    \/ \E member \in SessionMembers, id \in 1..MaxSessionChannels :
         SessionDeletePress(p, member, id)
    \/ \E pre \in {"ok", "no_guild", "no_member"} : SessionDeleteChecks(p, pre)
    \/ \E res \in VcResults : SessionDelete(p, res)
    \/ \E id \in 1..MaxSessionChannels : SessionChannelGone(id)
SessionSpec == Init /\ [][SessionNext]_vars

\* The members that press the create buttons: one without permissions and
\* a moderator.
Invokers == {"u1", "mod"}

\* Channels made by shared-create presses, and their delete buttons: any
\* member presses, Discord answers in every way, channels are also deleted
\* by hand, and the gateway tells the cache.
DeleteNext ==
  \/ \E p \in Presses :
       \/ \E invoker \in Invokers : SharedPress(p, invoker, 1)
       \/ \E pre \in SharedPreChecks, ms \in {<< >>, <<"u1">>} :
            SharedChecks(p, pre, ms)
       \/ \E res \in ScResults : SharedCreate(p, res)
       \/ \E res \in ScResults : SharedSend(p, res)
       \/ \E member \in Members, id \in 1..MaxSetupChannels :
            DeletePress(p, member, id)
       \/ \E pre \in DeletePreChecks : DeleteChecks(p, pre)
       \/ \E res \in ScResults : DeleteCall(p, res)
       \/ Return(p)
  \/ \E id \in 1..MaxSetupChannels : DeletedOutside(id) \/ ChannelGone(id)
DeleteSpec == Init /\ [][DeleteNext]_vars

\* Individual-create presses, one handler at a time.
IndividualNext ==
  \/ \E invoker \in Invokers, n \in Sessions : IndividualPress("p", invoker, n)
  \/ \E pre \in IndividualPreChecks, ms \in VcMemberLists :
       IndividualChecks("p", pre, ms)
  \/ \E res \in ScResults : IndividualCreate("p", res)
  \/ \E res \in ScResults : IndividualSend("p", res)
  \/ IndividualReport("p")
  \/ Return("p")
IndividualSpec == Init /\ [][IndividualNext]_vars

(***************************************************************************)
(* Properties of the export driver                                         *)
(***************************************************************************)

Last(s) == s[Len(s)]
IsPrefix(s, t) == Len(s) <= Len(t) /\ \A k \in 1..Len(s) : s[k] = t[k]

EntryFailures == {"not_text_channel", "no_me", "missing_perms"}
HistoryFailures == {"history_forbidden", "history_http"}
SendFailures == {"send_forbidden", "send_http"}

\* UTF-8 size of the page holding the messages a fetch of `count` returns.
DocBytes(ch, count) ==
  LET n == IF count <= ch.msgs THEN count ELSE ch.msgs
  IN  ShellBytes + n * ch.fragBytes + (IF n > 0 THEN n - 1 ELSE 0)

\* The step of invocation i that measured a fetched document.
Measured(i) ==
  /\ pc[i] = "fetch"
  /\ pc'[i] # "fetch" \/ requested'[i] # requested[i]
  /\ pending'[i] \notin HistoryFailures

\* C1: a file is sent only when the UTF-8 size of the document rendered from
\* the most recent fetch is <= SAFE_MAX_BYTES, the count reported with it is
\* the count of that fetch, and no send is started or file delivered while
\* the last measured document exceeds the ceiling.
C1_FileOnlyWhenFits ==
  \A i \in Inv :
    /\ file[i] # NoFile =>
         /\ requested[i] # << >>
         /\ file[i].count = Last(requested[i])
         /\ file[i].bytes = DocBytes(channel[i], Last(requested[i]))
         /\ file[i].bytes <= 8188608
    /\ dataLen[i] > 8188608 => file[i] = NoFile /\ pc[i] # "send"

C1_Witness ==
  \E i \in Inv :
    /\ file[i] # NoFile
    /\ Len(requested[i]) >= 3
    /\ file[i].bytes > 4000000

\* C2: when the measured document exceeds the ceiling, a count at or below
\* the floor ends in the too-large report with no further fetch and no
\* file; any other count makes the next fetch request max(50, count // 2),
\* which is at least 50.
C2_ShrinkOrGiveUp ==
  [][\A i \in Inv :
       /\ (Measured(i) /\ dataLen'[i] > 8188608) =>
            IF current[i] <= 50
              THEN /\ pc'[i] = "report"
                   /\ pending'[i] = "too_large"
                   /\ requested'[i] = requested[i]
                   /\ file'[i] = NoFile
              ELSE /\ pc'[i] = "fetch"
                   /\ requested'[i] =
                        Append(requested[i],
                               IF current[i] \div 2 >= 50
                                 THEN current[i] \div 2 ELSE 50)
                   /\ current'[i] = Last(requested'[i])
                   /\ current'[i] >= 50
       /\ pending[i] = "too_large" =>
            /\ requested'[i] = requested[i]
            /\ file'[i] = NoFile
            /\ pc'[i] \in {"report", "done"}
    ]_vars

C2_Witness ==
  \E i \in Inv :
    /\ outcome[i] = "too_large"
    /\ Len(requested[i]) >= 2
    /\ Last(requested[i]) = 50

\* C3: every invocation whose awaited calls return reaches a terminal state;
\* the counts it requests are positive and strictly decreasing, and it
\* issues at most 8 fetches.
C3_Terminates ==
  /\ [](\A i \in Inv :
          /\ Len(requested[i]) <= 8
          /\ \A k \in 1..Len(requested[i]) :
               /\ requested[i][k] >= 1
               /\ k > 1 => requested[i][k] < requested[i][k - 1])
  /\ \A i \in Inv : (pc[i] # "idle") ~> (pc[i] = "done")

C3_Witness ==
  \E i \in Inv :
    /\ pc[i] = "done"
    /\ Len(requested[i]) = 8
    /\ outcome[i] = "too_large"

\* The sizes the provider returned decrease strictly with the count asked.
StrictlyDecreasing(i) ==
  \A j, k \in 1..Len(requested[i]) :
    requested[i][j] > requested[i][k] =>
      DocBytes(channel[i], requested[i][j]) > DocBytes(channel[i], requested[i][k])

\* C4: with a limit of at least 50 and a provider whose document size
\* strictly decreases with the count, no fetch asks for fewer than 50
\* messages, and an invocation none of whose calls failed ends either with a
\* file that fits and reports a count >= 50, or with the too-large report
\* issued at the floor.
C4_FloorRespected ==
  \A i \in Inv :
    (arg[i] >= 50 /\ StrictlyDecreasing(i)) =>
      /\ \A k \in 1..Len(requested[i]) : requested[i][k] >= 50
      /\ (pc[i] = "done" /\
          outcome[i] \notin EntryFailures \cup HistoryFailures
                              \cup SendFailures \cup {"raised"}) =>
           \/ /\ outcome[i] = "sent"
              /\ file[i].bytes <= 8188608
              /\ file[i].count >= 50
           \/ /\ outcome[i] = "too_large"
              /\ file[i] = NoFile
              /\ Last(requested[i]) = 50
              /\ dataLen[i] > 8188608

C4_Witness ==
  \E i \in Inv :
    /\ arg[i] = 5000
    /\ StrictlyDecreasing(i)
    /\ outcome[i] = "sent"
    /\ Len(requested[i]) >= 4
    /\ file[i].count >= 50

\* C5: whatever integer the caller passes, an invocation that passes the
\* entry checks issues a first fetch, and its count is the limit clamped to
\* [1, 5000].
C5_FirstFetchClamped ==
  \A i \in Inv :
    (pc[i] \notin {"idle", "chunk"} /\ pending[i] \notin EntryFailures) =>
      /\ Len(requested[i]) >= 1
      /\ requested[i][1] =
           (IF arg[i] < 1 THEN 1 ELSE IF arg[i] > 5000 THEN 5000 ELSE arg[i])

C5_Witness ==
  \E i \in Inv :
    /\ arg[i] < 1
    /\ requested[i] = <<1>>
    /\ outcome[i] = "sent"

\* C6: a history fetch that fails with Forbidden or HTTPException leads
\* straight to the report of that failure and to the end of the invocation:
\* no further fetch, no change of the count, no file.
C6_FetchFailureEnds ==
  [][\A i \in Inv :
       /\ (pc[i] = "fetch" /\ pending'[i] \in HistoryFailures) =>
            /\ pc'[i] = "report"
            /\ requested'[i] = requested[i]
            /\ current'[i] = current[i]
            /\ file'[i] = NoFile
       /\ pending[i] \in HistoryFailures =>
            /\ pending'[i] = pending[i]
            /\ requested'[i] = requested[i]
            /\ current'[i] = current[i]
            /\ file'[i] = NoFile
            /\ pc[i] = "report" => pc'[i] \in {"report", "done"}
            /\ pc[i] = "done" => pc'[i] = "done"
            /\ pc'[i] = "done" => outcome'[i] \in {pending[i], "raised"}
    ]_vars

C6_Witness ==
  \E i \in Inv :
    /\ outcome[i] = "history_http"
    /\ Len(requested[i]) >= 2

\* The failure classes of the export interface.
FailureClass(o) ==
  CASE o = "too_large" -> "too-large-even-at-floor"
    [] o \in {"missing_perms", "history_forbidden", "send_forbidden"} -> "forbidden"
    [] o \in {"not_text_channel", "no_me", "history_http", "send_http"} -> "provider-error"
    [] OTHER -> "unclassified"

\* C7: no exception leaves export: every finished invocation either sent
\* the file or reported a failure of one of the three classes.
C7_NoExceptionEscapes ==
  \A i \in Inv :
    pc[i] = "done" =>
      /\ raised[i] = "none"
      /\ \/ outcome[i] = "sent"
         \/ FailureClass(outcome[i]) \in
              {"too-large-even-at-floor", "provider-error", "forbidden"}

\* The counts a run that is alone and meets no failure requests.
RECURSIVE SoloChain(_, _)
SoloChain(ch, count) ==
  IF DocBytes(ch, count) <= 8188608 \/ count <= 50
    THEN <<count>>
    ELSE <<count>> \o SoloChain(ch, IF count \div 2 >= 50 THEN count \div 2 ELSE 50)

SoloFirst(i) == IF arg[i] < 1 THEN 1 ELSE IF arg[i] > 5000 THEN 5000 ELSE arg[i]

\* C8: interleaved invocations do not interfere: each requests the counts
\* it requests when run alone and ends as it does alone, and a step that
\* makes one invocation fetch again leaves the other's count unchanged.
C8_Independent ==
  /\ [](\A i \in Inv :
          /\ IsPrefix(requested[i], SoloChain(channel[i], SoloFirst(i)))
          /\ requested[i] # << >> => current[i] = Last(requested[i])
          /\ (pc[i] = "send" \/ outcome[i] \in {"sent", "too_large"} \cup SendFailures) =>
               requested[i] = SoloChain(channel[i], SoloFirst(i))
          /\ outcome[i] = "sent" =>
               /\ file[i].count = Last(SoloChain(channel[i], SoloFirst(i)))
               /\ file[i].bytes = DocBytes(channel[i], file[i].count)
          /\ outcome[i] = "too_large" =>
               DocBytes(channel[i], Last(requested[i])) > 8188608)
  /\ [][\A i, j \in Inv :
          (i # j /\ requested'[j] # requested[j]) =>
             /\ current'[i] = current[i]
             /\ requested'[i] = requested[i]
             /\ dataLen'[i] = dataLen[i]
       ]_vars

C8_Witness ==
  /\ \A i \in Inv : pc[i] = "done" /\ Len(requested[i]) >= 2
  /\ outcome["a"] = "sent"
  /\ outcome["b"] = "too_large"
  /\ file["a"].count > 50

(***************************************************************************)
(* Properties of the renderer                                              *)
(***************************************************************************)

CountOf(s, c) == Cardinality({j \in 1..Len(s) : s[j] = c})

\* The text an escaped string stands for.
EntityAt(s, j) ==
  CASE MatchAt(s, j, S_Amp) -> <<S_Amp, <<"&">> >>
    [] MatchAt(s, j, S_Lt) -> <<S_Lt, <<"<">> >>
    [] MatchAt(s, j, S_Gt) -> <<S_Gt, <<">">> >>
    [] MatchAt(s, j, S_Quot) -> <<S_Quot, <<"\"">> >>
    [] MatchAt(s, j, S_Apos) -> <<S_Apos, <<"'">> >>
    [] OTHER -> <<<<"&">>, <<"&">> >>

RECURSIVE UnescapeFrom(_, _)
UnescapeFrom(s, i) ==
  LET j == NextIn(s, i, {"&"})
  IN  IF j = 0 THEN Slice(s, i, Len(s) + 1)
      ELSE Slice(s, i, j) \o EntityAt(s, j)[2]
             \o UnescapeFrom(s, j + Len(EntityAt(s, j)[1]))

Unescape(s) == UnescapeFrom(s, 1)

\* A fragment that opens a <pre><code> element and closes it.
IsCodeFragment(f) ==
  MatchAt(f, 1, S_CodeOpen) /\ FindLit(f, Len(S_CodeOpen) + 1, S_CodeClose) # 0

\* What is between <code> and </code>, and what follows </pre>.
CodeText(f) ==
  Slice(f, Len(S_CodeOpen) + 1, FindLit(f, Len(S_CodeOpen) + 1, S_CodeClose))
Caption(f) ==
  Slice(f, FindLit(f, Len(S_CodeOpen) + 1, S_CodeClose) + Len(S_CodeClose),
        Len(f) + 1)

\* The positions of the code regions among the pieces of a split.
CodePositions(ps) == {k \in 1..Len(ps) : k % 2 = 0}

\* C9 as stated: every code region is emitted, escaped, as the content of
\* the <pre><code> fragment and nothing else, with no tag of its own.
C9_CodeRegionVerbatim ==
  \A k \in CodePositions(out) :
    /\ IsCodeFragment(out[k])
    /\ Unescape(CodeText(out[k])) = parts[k]
    /\ Caption(out[k]) = << >>
    /\ CountOf(out[k], "<") = 4

\* C9 amended: the text of a code region is never given a formatting tag;
\* it is emitted escaped inside the <pre><code> fragment, except for a
\* first line recognised as a language label, which is emitted, escaped and
\* unformatted, in the language caption after the fragment.
C9_CodeRegionUnformatted ==
  \A k \in CodePositions(out) :
    LET f == out[k]
        p == parts[k]
    IN  /\ IsCodeFragment(f)
        /\ \/ /\ Unescape(CodeText(f)) = p
              /\ Caption(f) = << >>
              /\ CountOf(f, "<") = 4
           \/ \E n \in 1..Len(p) :
                LET label == Strip(Slice(p, 1, n))
                IN  /\ p[n] = "\n"
                    /\ \A m \in 1..(n - 1) : p[m] # "\n"
                    /\ label # << >>
                    /\ \A m \in 1..Len(label) : label[m] \in LangChars
                    /\ Unescape(CodeText(f)) = Slice(p, n + 1, Len(p) + 1)
                    /\ Caption(f) = S_LangOpen \o label \o S_DivClose
                    /\ CountOf(f, "<") = 6

C9_Witness ==
  /\ rpc = "done"
  /\ Len(out) = 3
  /\ parts[2] = <<"*", "*", "b", "*", "*", "#", "c">>
  /\ CodeText(out[2]) = parts[2]

\* C10: a reference pattern inside a code region of the message is emitted
\* as its escaped original text in the code body (the body being the region,
\* or the region after a first line taken as the language label).
C10_CodeKeepsReferences ==
  rpc = "done" =>
    LET regions == Split(raw, S_Fence)
    IN  /\ Len(out) = Len(regions)
        /\ \A k \in CodePositions(regions) :
             /\ IsCodeFragment(out[k])
             /\ \/ Unescape(CodeText(out[k])) = regions[k]
                \/ \E n \in 1..Len(regions[k]) :
                     /\ regions[k][n] = "\n"
                     /\ Unescape(CodeText(out[k])) =
                          Slice(regions[k], n + 1, Len(regions[k]) + 1)

\* The number of places where lit occurs in s.
CountLit(s, lit) ==
  Cardinality({j \in 1..(Len(s) - Len(lit) + 1) : MatchAt(s, j, lit)})

\* s without its tags: everything from a "<" to the next ">" is dropped.
RECURSIVE StripTagsFrom(_, _)
StripTagsFrom(s, i) ==
  LET j == NextIn(s, i, {"<"})
      e == IF j = 0 THEN 0 ELSE NextIn(s, j, {">"})
  IN  IF j = 0 THEN Slice(s, i, Len(s) + 1)
      ELSE IF e = 0 THEN Slice(s, i, j)
      ELSE Slice(s, i, j) \o StripTagsFrom(s, e + 1)

StripTags(s) == StripTagsFrom(s, 1)

\* How often character c occurs in the text the message stands for: in the
\* raw text outside the references, and in the display name of every
\* reference that resolves.
S_Ref1 == <<"<", "@", "1", ">">>
ExpectedCount(c) ==
  LET refs == CountLit(raw, S_Ref1)
      inRef == CountOf(S_Ref1, c)
      inName == IF guild.present /\ 1 \in DOMAIN guild.members
                  THEN CountOf(guild.members[1], c) ELSE 0
  IN  CountOf(raw, c) - refs * inRef + refs * inName

\* C11: in the rendered body every <, >, & and " of the raw text and of a
\* resolved display name is exactly one entity: outside the tags of the
\* renderer there is no bare <, > or ", every & begins one of the four
\* entities, and each entity occurs as often as its character occurs in the
\* text.
C11_EscapedOnce ==
  rpc = "done" =>
    LET plain == StripTags(body)
    IN  /\ \A j \in 1..Len(plain) :
             /\ plain[j] \notin {"<", ">", "\""}
             /\ plain[j] = "&" =>
                  \E ent \in {S_Lt, S_Gt, S_Amp, S_Quot} : MatchAt(plain, j, ent)
        /\ CountLit(plain, S_Lt) = ExpectedCount("<")
        /\ CountLit(plain, S_Gt) = ExpectedCount(">")
        /\ CountLit(plain, S_Quot) = ExpectedCount("\"")
        /\ CountLit(plain, S_Amp) = ExpectedCount("&")
        /\ CountOf(plain, "&") = ExpectedCount("<") + ExpectedCount(">")
                                   + ExpectedCount("\"") + ExpectedCount("&")

\* A resolved display name with all four characters in prose, next to a code
\* block holding "<".
C11_Witness ==
  /\ rpc = "done"
  /\ guild = GuildX
  /\ raw = S_Ref1 \o S_Fence \o <<"<">>
  /\ body = S_MentionOpen \o <<"@">> \o S_Lt \o S_Gt \o S_Amp \o S_Quot
               \o S_SpanClose \o S_CodeOpen \o S_Lt \o S_CodeClose

\* s with every occurrence of lit replaced by repl.
ReplaceLit(s, lit, repl) == JoinWith(Split(s, lit), repl)

\* What the directory holds under an id, << >> if nothing.
NameIn(g, dir, id) == IF g.present /\ id \in DOMAIN dir THEN dir[id] ELSE << >>

\* The references of the messages, each with the id it names.
UserRefs ==
  { <<<<"<", "@", "1", ">">>, 1>>, <<<<"<", "@", "!", "1", ">">>, 1>>,
    <<<<"<", "@", "7", ">">>, 7>> }
RoleRefs == { <<<<"<", "@", "&", "1", ">">>, 1>>, <<<<"<", "@", "&", "7", ">">>, 7>> }
ChannelRefs == { <<<<"<", "#", "1", ">">>, 1>>, <<<<"<", "#", "7", ">">>, 7>> }

\* s with every literal of the pairs <<literal, replacement>> replaced.
RECURSIVE ReplaceAll(_, _)
ReplaceAll(s, pairs) ==
  IF pairs = {} THEN s
  ELSE LET r == CHOOSE x \in pairs : TRUE
       IN  ReplaceAll(ReplaceLit(s, r[1], r[2]), pairs \ {r})

\* C12: a user reference the directory cannot resolve is replaced by the
\* empty string and a resolvable one by @ and the display name, the text
\* around it staying as it is (role and channel references in it are
\* replaced as the code replaces them); no digit of an id is in the rendered
\* body.
C12_UserReference ==
  LET UserText(id) ==
        IF NameIn(guild, guild.members, id) # << >>
          THEN <<"@">> \o NameIn(guild, guild.members, id) ELSE << >>
      RoleText(id) == DisplayRole(guild, id)
      ChannelText(id) == DisplayChannel(guild, id)
  IN  /\ rpc \notin {"idle", "resolve"} =>
           text = ReplaceAll(ReplaceAll(ReplaceAll(raw,
                          {<<r[1], UserText(r[2])>> : r \in UserRefs}),
                          {<<r[1], RoleText(r[2])>> : r \in RoleRefs}),
                          {<<r[1], ChannelText(r[2])>> : r \in ChannelRefs})
      /\ rpc = "done" =>
           \A j \in 1..Len(body) : body[j] \notin Digits

\* An unknown user after a letter, and a known one after it.
C12_Witness ==
  /\ rpc = "done"
  /\ guild = Guild1
  /\ raw = <<"a", "<", "@", "7", ">", "<", "@", "!", "1", ">">>
  /\ text = <<"a", "@", "m">>

\* C13 as stated: an unresolvable role reference becomes @role and an
\* unresolvable channel reference #channel.
C13_EnglishPlaceholders ==
  LET UserText(id) == DisplayUser(guild, id)
      RoleText(id) ==
        IF NameIn(guild, guild.roles, id) # << >>
          THEN <<"@">> \o NameIn(guild, guild.roles, id)
          ELSE <<"@", "r", "o", "l", "e">>
      ChannelText(id) ==
        IF NameIn(guild, guild.channels, id) # << >>
          THEN <<"#">> \o NameIn(guild, guild.channels, id)
          ELSE <<"#", "c", "h", "a", "n", "n", "e", "l">>
  IN  rpc \notin {"idle", "resolve"} =>
        text = ReplaceAll(ReplaceAll(ReplaceAll(raw,
                       {<<r[1], UserText(r[2])>> : r \in UserRefs}),
                       {<<r[1], RoleText(r[2])>> : r \in RoleRefs}),
                       {<<r[1], ChannelText(r[2])>> : r \in ChannelRefs})

\* C13 amended: the placeholders are the fixed strings @ + katakana "role"
\* (U+30ED U+30FC U+30EB) and # + katakana "channel" (U+30C1 U+30E3 U+30F3
\* U+30CD U+30EB); resolvable references become @ and the role name, # and
\* the channel name.
C13_KatakanaPlaceholders ==
  LET UserText(id) == DisplayUser(guild, id)
      RoleText(id) ==
        IF NameIn(guild, guild.roles, id) # << >>
          THEN <<"@">> \o NameIn(guild, guild.roles, id)
          ELSE <<"@", "U+30ED", "U+30FC", "U+30EB">>
      ChannelText(id) ==
        IF NameIn(guild, guild.channels, id) # << >>
          THEN <<"#">> \o NameIn(guild, guild.channels, id)
          ELSE <<"#", "U+30C1", "U+30E3", "U+30F3", "U+30CD", "U+30EB">>
  IN  rpc \notin {"idle", "resolve"} =>
        text = ReplaceAll(ReplaceAll(ReplaceAll(raw,
                       {<<r[1], UserText(r[2])>> : r \in UserRefs}),
                       {<<r[1], RoleText(r[2])>> : r \in RoleRefs}),
                       {<<r[1], ChannelText(r[2])>> : r \in ChannelRefs})

\* A known role, an unknown role and an unknown channel in one message.
C13_Witness ==
  /\ rpc = "done"
  /\ guild = Guild1
  /\ raw = <<"<", "@", "&", "1", ">", "<", "@", "&", "7", ">", "<", "#", "7", ">">>
  /\ text = <<"@", "r", "@", "U+30ED", "U+30FC", "U+30EB",
              "#", "U+30C1", "U+30E3", "U+30F3", "U+30CD", "U+30EB">>

\* C14: the inline passes are bold, underline, strikethrough, italics:
\* __x__ is rendered as x inside one pair of tags that is not the italic
\* pair, and **_x_** as x inside one such pair inside one bold pair.
C14_UnderlinePass ==
  /\ (rpc = "done" /\ raw = <<"_", "_", "x", "_", "_">>) =>
        /\ StripTags(body) = <<"x">>
        /\ CountOf(body, "<") = 2
        /\ CountLit(body, S_EmOpen) = 0
  /\ (rpc = "done" /\ raw = <<"*", "*", "_", "x", "_", "*", "*">>) =>
        /\ StripTags(body) = <<"x">>
        /\ CountOf(body, "<") = 4
        /\ MatchAt(body, 1, S_StrongOpen)
        /\ MatchAt(body, Len(body) - Len(S_StrongClose) + 1, S_StrongClose)
        /\ CountLit(body, S_EmOpen) = 0

\* The tags of the bold, strikethrough and italic passes.
FormatTags ==
  { <<S_StrongOpen, "strong", TRUE>>, <<S_StrongClose, "strong", FALSE>>,
    <<S_DelOpen, "del", TRUE>>, <<S_DelClose, "del", FALSE>>,
    <<S_EmOpen, "em", TRUE>>, <<S_EmClose, "em", FALSE>> }

\* Those tags in the order they occur in s from position i on.
RECURSIVE FormatTagsFrom(_, _)
FormatTagsFrom(s, i) ==
  LET j == NextIn(s, i, {"<"})
      here == {t \in FormatTags : MatchAt(s, j, t[1])}
  IN  IF j = 0 THEN << >>
      ELSE IF here = {} THEN FormatTagsFrom(s, j + 1)
      ELSE LET t == CHOOSE x \in here : TRUE
           IN  <<t>> \o FormatTagsFrom(s, j + Len(t[1]))

\* Every closing tag closes the tag opened last, and none stays open.
RECURSIVE WellNested(_, _)
WellNested(tags, open) ==
  IF tags = << >> THEN open = << >>
  ELSE IF Head(tags)[3] THEN WellNested(Tail(tags), <<Head(tags)[2]>> \o open)
  ELSE /\ open # << >>
       /\ Head(open) = Head(tags)[2]
       /\ WellNested(Tail(tags), Tail(open))

\* C15: in every rendered fragment the <strong>, <del> and <em> tags are
\* well nested.
C15_TagsWellNested ==
  \A k \in 1..Len(out) : WellNested(FormatTagsFrom(out[k], 1), << >>)

\* C16: the generic mention span is never opened directly inside the span of
\* a broadcast ping, nor between the opening of an anchor and its end.
C16_NoReentry ==
  \A k \in 1..Len(out) :
    \A p \in 1..Len(out[k]) :
      MatchAt(out[k], p, S_MentionOpen) =>
        /\ ~(p > Len(S_PingOpen) /\ MatchAt(out[k], p - Len(S_PingOpen), S_PingOpen))
        /\ CountLit(Slice(out[k], 1, p), S_AHref)
             = CountLit(Slice(out[k], 1, p), S_AClose)

\* The elements of a block that show an attachment, in document order.
RECURSIVE Shown(_)
Shown(es) ==
  IF es = << >> THEN << >>
  ELSE IF Head(es).kind = "attach" THEN Head(es).children \o Shown(Tail(es))
  ELSE <<Head(es)>> \o Shown(Tail(es))

\* Whether the declared type or the filename says image.
LooksLikeImage(a) ==
  \/ a.content_type = S_ImagePrefix \o <<"x">>
  \/ a.filename \in {<<"a", ".", "g", "i", "f">>, <<"A", ".", "G", "I", "F">>}

\* C17: the block holds one element per attachment, in the order of the
\* attachment list, a thumbnail where the type or the filename says image
\* and a download link elsewhere.
C17_AttachmentsInOrder ==
  apc = "done" =>
    LET es == Shown(block)
    IN  /\ Len(es) = Len(atts)
        /\ \A k \in 1..Len(es) :
             /\ es[k].url = atts[k].url
             /\ es[k].name = atts[k].filename
             /\ es[k].kind = IF LooksLikeImage(atts[k]) THEN "thumb" ELSE "filelink"

\* The oldest `count` messages of a channel, in order of age.
OldestFirst(ch, count) ==
  IF count = 0 \/ ch.msgs = 0 THEN << >>
  ELSE << <<1, IF count <= ch.msgs THEN count ELSE ch.msgs>> >>

\* C18: the page rendered in an iteration holds exactly the messages of
\* that iteration's fetch, oldest first, and so does the file delivered:
\* nothing of an earlier iteration is in it.
C18_OnlyFinalFetch ==
  \A i \in Inv :
    LET n == IF pc[i] = "fetch" THEN Len(requested[i]) - 1 ELSE Len(requested[i])
    IN  /\ (n >= 1 /\ pending[i] \notin HistoryFailures) =>
             msgs[i] = OldestFirst(channel[i], requested[i][n])
        /\ outcome[i] = "sent" =>
             doc[i] = OldestFirst(channel[i], Last(requested[i]))
        /\ outcome[i] # "sent" => doc[i] = << >>

\* A file delivered after two shrinks.
C18_Witness ==
  \E i \in Inv :
    /\ outcome[i] = "sent"
    /\ Len(requested[i]) >= 3
    /\ doc[i] = << <<1, Last(requested[i])>> >>
    /\ Last(requested[i]) < channel[i].msgs

\* C19: the resolved text is split at every fence, so that the pieces
\* joined by fences are the text and no piece holds a fence; the piece at
\* split position i (the i+1-th piece) is rendered as a code block iff i is
\* odd, and otherwise as prose, which never opens a code block.
C19_OddPiecesAreCode ==
  rpc \in {"loop", "done"} =>
    /\ JoinWith(parts, S_Fence) = text
    /\ \A k \in 1..Len(parts) : CountLit(parts[k], S_Fence) = 0
    /\ \A k \in 1..Len(out) :
         LET i == k - 1
         IN  IF i % 2 = 1
               THEN IsCodeFragment(out[k])
               ELSE CountLit(out[k], S_CodeOpen) = 0

\* An opening fence that is never closed: what follows it is a code block
\* to the end of the message.
C19_Witness ==
  /\ rpc = "done"
  /\ raw = <<"*", "*", "b", "*", "*">> \o S_Fence \o <<"*", "*", "b", "*", "*">>
  /\ body = S_StrongOpen \o <<"b">> \o S_StrongClose
             \o S_CodeOpen \o <<"*", "*", "b", "*", "*">> \o S_CodeClose

\* The lines of a prose piece: a line break ends a line; the empty piece
\* has one empty line.
LinesOf(s) ==
  LET ps == Split(s, <<"\n">>)
  IN  IF Len(ps) > 1 /\ Last(ps) = << >> THEN SubSeq(ps, 1, Len(ps) - 1) ELSE ps

\* The level of the heading marker a line starts with, 0 if none.
HeadingLevel(line) ==
  IF MatchAt(line, 1, <<"#", "#", "#", " ">>) THEN 3
  ELSE IF MatchAt(line, 1, <<"#", "#", " ">>) THEN 2
  ELSE IF MatchAt(line, 1, <<"#", " ">>) THEN 1
  ELSE 0

\* C20: in a prose piece every line is rendered in its place, between line
\* break markers; a line with a heading marker becomes the heading of that
\* level, holding the rest of the line escaped and no tag; any other line is
\* escaped and passed to the inline formatter.
C20_Headings ==
  \A k \in 1..Len(out) :
    k % 2 = 1 =>
      LET lines == LinesOf(parts[k])
          frags == Split(out[k], S_Br)
      IN  /\ Len(frags) = Len(lines)
          /\ \A j \in 1..Len(lines) :
               LET level == HeadingLevel(lines[j])
                   open == <<S_H1Open, S_H2Open, S_H3Open>>
                   inner == Slice(frags[j], Len(S_H1Open) + 1,
                                  Len(frags[j]) - Len(S_DivClose) + 1)
               IN  IF level > 0
                     THEN /\ MatchAt(frags[j], 1, open[level])
                          /\ EndsWith(frags[j], S_DivClose)
                          /\ Len(frags[j]) >= Len(S_H1Open) + Len(S_DivClose)
                          /\ CountOf(inner, "<") = 0
                          /\ Unescape(inner) = Slice(lines[j], level + 2, Len(lines[j]) + 1)
                     ELSE /\ frags[j] = ApplyInlineFormatting(Escape(lines[j]))
                          /\ \A h \in 1..3 : ~MatchAt(frags[j], 1, open[h])

\* A level-3 heading whose text holds emphasis delimiters and a "<".
C20_Witness ==
  /\ rpc = "done"
  /\ raw = <<"#", "#", "#", " ", "*", "*", "b", "*", "*", "<">>
  /\ body = S_H3Open \o <<"*", "*", "b", "*", "*">> \o S_Lt \o S_DivClose

\* The pieces between the line breaks of a prose piece, the empty piece
\* after a final line break included.
BrokenAt(s) == Split(s, <<"\n">>)

\* C21: a prose piece is rendered as its lines in their order, one fragment
\* per line between line break markers, and no line is lost: the empty piece
\* gives one empty fragment, and the empty line after a final line break
\* gives its own empty fragment.
C21_EveryLineKept ==
  \A k \in 1..Len(out) :
    k % 2 = 1 =>
      LET lines == BrokenAt(parts[k])
          frags == Split(out[k], S_Br)
      IN  /\ Len(frags) >= 1
          /\ parts[k] = << >> => out[k] = << >>
          /\ Len(frags) = Len(lines)
          /\ \A j \in 1..Len(lines) : frags[j] = RenderLine(lines[j])

\* The entity html.escape writes for each character it replaces.
EntityOf ==
  [c \in {"&", "<", ">", "\"", "'"} |->
     CASE c = "&" -> <<"&", "a", "m", "p", ";">>
       [] c = "<" -> <<"&", "l", "t", ";">>
       [] c = ">" -> <<"&", "g", "t", ";">>
       [] c = "\"" -> <<"&", "q", "u", "o", "t", ";">>
       [] c = "'" -> <<"&", "#", "x", "2", "7", ";">>]

\* C26: in the rendering of a prose line every entity that escaping wrote is
\* still in one piece: each replaced character of the line has its entity,
\* unbroken by markup, in the output of the formatter.
C26_EntitiesUnbroken ==
  \A k \in 1..Len(out) :
    k % 2 = 1 =>
      \A c \in DOMAIN EntityOf :
        CountLit(out[k], EntityOf[c]) = CountOf(parts[k], c)

(***************************************************************************)
(* Properties of the session text channels                                 *)
(***************************************************************************)

\* C22: a press of a delete button deletes the text channel only if the
\* presser is the member whose press created that channel, or holds
\* administrator or manage_channels; a press that reused the channel gives
\* no such right.
C22_OnlyCreatorOrAdminDeletes ==
  [][\A p \in Presses :
       LET id == vc_local[p].ch
           by == vc_local[p].user
       IN  (vc_pc[p] = "delete" /\ vc_pc'[p] = "idle"
              /\ vc_discord[id].live /\ ~vc_discord'[id].live)
             => \/ by = vc_discord[id].made_by
                \/ GuildPermissions[by].administrator
                \/ GuildPermissions[by].manage_channels]_vars

\* C23: Discord never holds two text channels named session-N-private in
\* the category of session N.
C23_OneChannelPerSession ==
  \A n \in Sessions :
    Cardinality({id \in 1..Len(vc_discord) :
                   /\ vc_discord[id].live
                   /\ vc_discord[id].name = <<"session", n, "private">>
                   /\ vc_discord[id].category = n}) <= 1

(***************************************************************************)
(* Properties of the shared and individual text channels                   *)
(***************************************************************************)

\* Who may delete: the permissions, read from guild_permissions directly.
MayManage(member) ==
  LET perms == [u1 |-> {}, u2 |-> {}, mod |-> {"manage_channels"},
                adm |-> {"administrator"}]
  IN  perms[member] # {}

\* C24: a press of a delete button asks Discord to delete, and deletes, only
\* when the presser is the creator_id recorded for the channel or holds
\* administrator or manage_channels (with no record: only the latter); a
\* press that is refused, or whose request fails with Forbidden, changes
\* neither the channels nor the DB; a delete that succeeded, and a press
\* that found no such channel in the guild, leave no record of the id in
\* the DB and change nothing else.
C24_DeleteFrame ==
  [][\A p \in Presses :
       LET member == sc_local[p].user
           id == sc_local[p].ch
           recorded == id \in DOMAIN sc_db /\ sc_db[id].creator_id = member
           asked == sc_pc[p] = "ddefer" /\ sc_pc'[p] = "delete"
           refused == sc_pc[p] = "ddefer" /\ sc_pc'[p] = "said_refused"
           forbidden == sc_pc[p] = "delete" /\ sc_pc'[p] = "said_forbidden"
           deleted == sc_pc[p] = "delete" /\ sc_pc'[p] = "said_deleted"
           missing == sc_pc[p] = "ddefer" /\ sc_pc'[p] = "said_not_found"
           others == \A k \in DOMAIN sc_db \ {id} :
                       k \in DOMAIN sc_db' /\ sc_db'[k] = sc_db[k]
       IN  /\ asked \/ deleted => recorded \/ MayManage(member)
           /\ (\E c \in 1..Len(sc_discord) :
                 sc_discord'[c].deleted_by # sc_discord[c].deleted_by)
                => \E q \in Presses : sc_pc[q] = "delete"
                                        /\ sc_pc'[q] = "said_deleted"
           /\ deleted => /\ sc_discord[id].live /\ ~sc_discord'[id].live
                         /\ sc_discord'[id].deleted_by = member
                         /\ \A c \in 1..Len(sc_discord) \ {id} :
                              sc_discord'[c] = sc_discord[c]
                         /\ id \notin DOMAIN sc_db' /\ others
           /\ missing => /\ id \notin sc_guild
                         /\ sc_discord' = sc_discord
                         /\ id \notin DOMAIN sc_db' /\ others
           /\ refused \/ forbidden =>
                sc_discord' = sc_discord /\ sc_db' = sc_db]_vars

\* A member without permissions has had the channel of their own shared
\* press deleted and is told so, after the press of another member without
\* permissions on that channel was refused; the record is gone.
C24_Witness ==
  /\ Len(sc_discord) = 1
  /\ sc_discord[1].made_by = "u1" /\ sc_discord[1].deleted_by = "u1"
  /\ ~sc_discord[1].live
  /\ 1 \notin DOMAIN sc_db
  /\ sc_pc["p"] = "said_deleted" /\ sc_pc["q"] = "said_refused"

\* The names on a list.
NamesOn(list) == {list[j] : j \in 1..Len(list)}

\* C25: when handle_individual_create reports, every member it iterated is
\* either counted as created or named as failed, never both: the count plus
\* the length of the failed list is the number of members, and no member
\* counted as created is on the failed list.
C25_EachMemberOnce ==
  \A p \in Presses :
    sc_pc[p] = "ireport" =>
      /\ sc_local[p].created + Len(sc_local[p].failed)
           = Len(sc_local[p].vc_members)
      /\ sc_local[p].counted \cap NamesOn(sc_local[p].failed) = {}

====
